---- MODULE Spec2Model ----
(***************************************************************************)
(* Model of the caragent-chatbot conversational engine: the webhook turn   *)
(* handler (webhook.routes.ts), the quote dialogue controller              *)
(* (quote-flow.service.ts), the catalog resolver (catalog.service.ts), the *)
(* query normalizer (nlp.utils.ts), the intent classifier (llm.service.ts) *)
(* and the content-safety guardrail (guardrails.service.ts).               *)
(*                                                                         *)
(* Strings are sequences of one-character strings so that toLowerCase,     *)
(* trim, includes, replace, split and parseInt are computed as the code    *)
(* computes them.                                                          *)
(***************************************************************************)
EXTENDS Integers, Sequences, FiniteSets, TLC

(***************************************************************************)
(* JavaScript string primitives                                            *)
(***************************************************************************)
UPPER == <<"A","B","C","D","E","F","G","H","I","J","K","L","M","N","O","P","Q","R","S","T","U","V","W","X","Y","Z">>

LOWER == <<"a","b","c","d","e","f","g","h","i","j","k","l","m","n","o","p","q","r","s","t","u","v","w","x","y","z">>

DIGITS == <<"0","1","2","3","4","5","6","7","8","9">>

IsUpper(c) == \E i \in 1..26 : UPPER[i] = c

IsLower(c) == \E i \in 1..26 : LOWER[i] = c

IsDigit(c) == \E i \in 1..10 : DIGITS[i] = c

DigitVal(c) == (CHOOSE i \in 1..10 : DIGITS[i] = c) - 1

\* /\s/
IsSpace(c) == c \in {" ", "\t", "\n", "\r"}

\* /\w/
IsWordChar(c) == IsUpper(c) \/ IsLower(c) \/ IsDigit(c) \/ c = "_"

lowerChar(c) == IF IsUpper(c) THEN LOWER[CHOOSE i \in 1..26 : UPPER[i] = c] ELSE c

\* String.prototype.toLowerCase
toLowerCase(s) == [i \in 1..Len(s) |-> lowerChar(s[i])]

Min(S) == CHOOSE m \in S : \A n \in S : m <= n

Max(S) == CHOOSE m \in S : \A n \in S : m >= n

\* String.prototype.trimStart
trimStart(s) ==
    LET keep == {i \in 1..Len(s) : ~IsSpace(s[i])}
    IN  IF keep = {} THEN << >> ELSE SubSeq(s, Min(keep), Len(s))

\* String.prototype.trimEnd
trimEnd(s) ==
    LET keep == {i \in 1..Len(s) : ~IsSpace(s[i])}
    IN  IF keep = {} THEN << >> ELSE SubSeq(s, 1, Max(keep))

\* String.prototype.trim
trim(s) == trimEnd(trimStart(s))

\* true when pat occurs in s at (1-based) position i
MatchAt(s, pat, i) == i >= 1 /\ i + Len(pat) - 1 <= Len(s) /\ SubSeq(s, i, i + Len(pat) - 1) = pat

\* String.prototype.includes / Array.prototype.includes on a string
includes(s, pat) == \E i \in 1..(Len(s) + 1) : MatchAt(s, pat, i)

\* String.prototype.startsWith
startsWith(s, pat) == MatchAt(s, pat, 1)

\* Array.prototype.slice(0, n) that keeps everything
takeAll(list, n) == list

\* Array.prototype.slice(0, n)
take(list, n) == SubSeq(list, 1, IF n < Len(list) THEN n ELSE Len(list))

\* Array.prototype.includes on a list of strings (exact element equality)
listIncludes(list, s) == \E i \in 1..Len(list) : list[i] = s

\* String.prototype.replace with a string pattern: first occurrence only
replaceFirst(s, pat, rep) ==
    IF ~includes(s, pat) THEN s
    ELSE LET i == CHOOSE k \in 1..(Len(s) + 1) : MatchAt(s, pat, k) /\ \A j \in 1..(k - 1) : ~MatchAt(s, pat, j)
         IN  SubSeq(s, 1, i - 1) \o rep \o SubSeq(s, i + Len(pat), Len(s))

\* /\b/ before position i of s (position Len(s)+1 is the end of the string)
WordAt(s, i) == i >= 1 /\ i <= Len(s) /\ IsWordChar(s[i])

Boundary(s, i) == WordAt(s, i - 1) # WordAt(s, i)

\* a case-insensitive match of the literal pat at i, with \b on both sides when wb
RegexMatchAt(s, pat, i, wb) ==
    /\ i + Len(pat) - 1 <= Len(s)
    /\ toLowerCase(SubSeq(s, i, i + Len(pat) - 1)) = toLowerCase(pat)
    /\ wb => (Boundary(s, i) /\ Boundary(s, i + Len(pat)))

\* s.replace(new RegExp(pat, 'gi'), rep), pat a literal, optionally \bpat\b:
\* the leftmost match at or after i is replaced, the scan resumes after it
RECURSIVE regexReplaceFrom(_, _, _, _, _)
regexReplaceFrom(s, pat, rep, wb, i) ==
    LET matches == IF Len(pat) = 0 THEN {} ELSE {k \in i..Len(s) : RegexMatchAt(s, pat, k, wb)}
    IN  IF matches = {} THEN SubSeq(s, i, Len(s))
        ELSE SubSeq(s, i, Min(matches) - 1) \o rep \o regexReplaceFrom(s, pat, rep, wb, Min(matches) + Len(pat))

regexReplaceAll(s, pat, rep, wb) == regexReplaceFrom(s, pat, rep, wb, 1)

\* s.replace(/\s+/g, ' '): every run of whitespace becomes one space
collapseSpaces(s) ==
    LET at     == [i \in 1..Len(s) |-> [i |-> i, c |-> s[i]]]
        starts == SelectSeq(at, LAMBDA r : ~IsSpace(r.c) \/ r.i = 1 \/ ~IsSpace(s[r.i - 1]))
    IN  [k \in 1..Len(starts) |-> IF IsSpace(starts[k].c) THEN " " ELSE starts[k].c]

\* s.split(sep) for a separator that is one character of a set: the pieces between
\* consecutive separators, empty pieces included
splitBy(s, separators) ==
    LET seps   == {i \in 1..Len(s) : s[i] \in separators}
        cut(k) == IF k = 0 THEN 0
                  ELSE IF k = Cardinality(seps) + 1 THEN Len(s) + 1
                  ELSE CHOOSE i \in seps : Cardinality({j \in seps : j <= i}) = k
    IN  [k \in 1..(Cardinality(seps) + 1) |-> SubSeq(s, cut(k - 1) + 1, cut(k) - 1)] \o << >>

\* s.split(/\s+/).filter(w => w.length > 0): the pieces between whitespace
\* runs are the non-empty pieces between whitespace characters
splitWords(s) == SelectSeq(splitBy(s, {c \in {s[i] : i \in 1..Len(s)} : IsSpace(c)}), LAMBDA w : w # << >>)

\* s.split(' '): splits on every single space, keeping empty pieces
splitOnSpace(s) == splitBy(s, {" "})

\* words.join(' ')
RECURSIVE joinSpace(_)
joinSpace(ws) ==
    IF ws = << >> THEN << >>
    ELSE IF Len(ws) = 1 THEN ws[1]
         ELSE ws[1] \o <<" ">> \o joinSpace(Tail(ws))

\* the result of parseInt: NaN, or an integer
NaN == [nan |-> TRUE, val |-> 0]

Num(n) == [nan |-> FALSE, val |-> n]

RECURSIVE digitsPrefix(_, _)
digitsPrefix(s, acc) ==
    IF s # << >> /\ IsDigit(Head(s)) THEN digitsPrefix(Tail(s), acc * 10 + DigitVal(Head(s))) ELSE acc

HEXLOW == <<"a","b","c","d","e","f">>

IsHexDigit(c) == IsDigit(c) \/ \E i \in 1..6 : HEXLOW[i] = lowerChar(c)

HexVal(c) == IF IsDigit(c) THEN DigitVal(c) ELSE 9 + (CHOOSE i \in 1..6 : HEXLOW[i] = lowerChar(c))

RECURSIVE hexPrefix(_, _)
hexPrefix(s, acc) ==
    IF s # << >> /\ IsHexDigit(Head(s)) THEN hexPrefix(Tail(s), acc * 16 + HexVal(Head(s))) ELSE acc

\* parseInt(s) with no radix: leading whitespace, optional sign, 0x prefix,
\* then the longest digit prefix; NaN when there is no digit
parseInt(s) ==
    LET t    == trimStart(s)
        neg  == t # << >> /\ Head(t) = "-"
        sgn  == t # << >> /\ Head(t) \in {"-", "+"}
        body == IF sgn THEN Tail(t) ELSE t
        hex  == Len(body) >= 2 /\ body[1] = "0" /\ body[2] \in {"x", "X"}
        hbody == SubSeq(body, 3, Len(body))
        ok   == IF hex THEN hbody # << >> /\ IsHexDigit(Head(hbody))
                       ELSE body # << >> /\ IsDigit(Head(body))
        mag  == IF hex THEN hexPrefix(hbody, 0) ELSE digitsPrefix(body, 0)
    IN  IF ~ok THEN NaN ELSE IF neg THEN Num(0 - mag) ELSE Num(mag)

isNaN(x) == x.nan

(***************************************************************************)
(* Query Normalizer (nlp.utils.ts)                                         *)
(***************************************************************************)
STOP_WORDS == {
    <<"a">>, <<"a","n">>, <<"t","h","e">>, <<"o","f">>, <<"f","o","r">>, <<"i","n">>, <<"o","n">>, <<"a","t">>, <<"t","o">>, <<"f","r","o","m">>, <<"b","y">>, <<"w","i","t","h">>, <<"a","b","o","u","t">>,
    <<"i","s">>, <<"a","r","e">>, <<"w","a","s">>, <<"w","e","r","e">>, <<"b","e">>, <<"b","e","e","n">>, <<"b","e","i","n","g">>, <<"h","a","v","e">>, <<"h","a","s">>, <<"h","a","d">>, <<"d","o">>, <<"d","o","e","s">>, <<"d","i","d">>,
    <<"i">>, <<"y","o","u">>, <<"h","e">>, <<"s","h","e">>, <<"i","t">>, <<"w","e">>, <<"t","h","e","y">>, <<"m","e">>, <<"h","i","m">>, <<"h","e","r">>, <<"u","s">>, <<"t","h","e","m">>,
    <<"m","y">>, <<"y","o","u","r">>, <<"h","i","s">>, <<"i","t","s">>, <<"o","u","r">>, <<"t","h","e","i","r">>,
    <<"t","h","i","s">>, <<"t","h","a","t">>, <<"t","h","e","s","e">>, <<"t","h","o","s","e">>, <<"h","e","r","e">>, <<"t","h","e","r","e">>,
    <<"w","h","a","t">>, <<"w","h","i","c","h">>, <<"w","h","o">>, <<"w","h","e","n">>, <<"w","h","e","r","e">>, <<"w","h","y">>, <<"h","o","w">>,
    <<"a","l","l">>, <<"a","n","y">>, <<"b","o","t","h">>, <<"e","a","c","h">>, <<"f","e","w">>, <<"m","o","r","e">>, <<"m","o","s","t">>, <<"o","t","h","e","r">>, <<"s","o","m","e">>, <<"s","u","c","h">>,
    <<"n","o">>, <<"n","o","r">>, <<"n","o","t">>, <<"o","n","l","y">>, <<"o","w","n">>, <<"s","a","m","e">>, <<"s","o">>, <<"t","h","a","n">>, <<"t","o","o">>, <<"v","e","r","y">>,
    <<"j","u","s","t">>, <<"n","o","w">>, <<"t","h","e","n">>, <<"a","l","s","o">>, <<"g","e","t">>, <<"g","o","t">>, <<"g","i","v","e">>, <<"g","a","v","e">>, <<"s","h","o","w">>,
    <<"t","e","l","l">>, <<"k","n","o","w">>, <<"s","e","e">>, <<"l","o","o","k">>, <<"w","a","n","t">>, <<"w","o","u","l","d">>, <<"c","o","u","l","d">>, <<"s","h","o","u","l","d">>, <<"m","a","y">>, <<"m","i","g","h","t">>,
    <<"c","a","n">>, <<"w","i","l","l">>, <<"s","h","a","l","l">>, <<"p","l","e","a","s","e">>, <<"t","h","a","n","k","s">>, <<"t","h","a","n","k">>, <<"y","e","s">>, <<"y","e","a","h">>, <<"y","e","p">>, <<"o","k">>, <<"o","k","a","y">> }

PHOTO_INDICATORS == <<
    <<"p","h","o","t","o">>, <<"p","h","o","t","o","s">>, <<"p","i","c","t","u","r","e">>, <<"p","i","c","t","u","r","e","s">>, <<"i","m","a","g","e">>, <<"i","m","a","g","e","s">>, <<"p","i","c">>, <<"p","i","c","s">>,
    <<"s","n","a","p","s","h","o","t">>, <<"s","n","a","p","s","h","o","t","s">>, <<"g","a","l","l","e","r","y">>, <<"s","h","o","t">>, <<"s","h","o","t","s">>, <<"v","i","s","u","a","l">>, <<"v","i","e","w">> >>

SPEC_INDICATORS == <<
    <<"s","p","e","c">>, <<"s","p","e","c","s">>, <<"s","p","e","c","i","f","i","c","a","t","i","o","n">>, <<"s","p","e","c","i","f","i","c","a","t","i","o","n","s">>, <<"f","e","a","t","u","r","e">>, <<"f","e","a","t","u","r","e","s">>,
    <<"d","e","t","a","i","l">>, <<"d","e","t","a","i","l","s">>, <<"i","n","f","o">>, <<"i","n","f","o","r","m","a","t","i","o","n">>, <<"s","t","a","t","s">>, <<"s","t","a","t">>, <<"t","e","c","h","n","i","c","a","l">> >>

QUOTE_INDICATORS == <<
    <<"q","u","o","t","e">>, <<"q","u","o","t","e","s">>, <<"q","u","o","t","a","t","i","o","n">>, <<"p","r","i","c","e">>, <<"p","r","i","c","i","n","g">>, <<"c","o","s","t">>, <<"a","m","o","u","n","t">>, <<"f","e","e">>,
    <<"p","a","y","m","e","n","t">>, <<"p","a","y">>, <<"h","o","w"," ","m","u","c","h">>, <<"h","o","w"," ","m","u","c","h"," ","i","s">>, <<"w","h","a","t"," ","i","s"," ","t","h","e"," ","p","r","i","c","e">>, <<"w","o","r","t","h">>,
    <<"e","s","t","i","m","a","t","e">>, <<"b","u","d","g","e","t">>, <<"f","i","n","a","n","c","i","n","g">>, <<"i","n","s","t","a","l","l","m","e","n","t">>, <<"m","o","n","t","h","l","y">>, <<"d","o","w","n"," ","p","a","y","m","e","n","t">> >>

QUOTE_PHRASES == <<
    <<"h","o","w"," ","m","u","c","h"," ","i","s">>, <<"h","o","w"," ","m","u","c","h"," ","d","o","e","s">>, <<"h","o","w"," ","m","u","c","h"," ","f","o","r">>, <<"w","h","a","t"," ","i","s"," ","t","h","e"," ","p","r","i","c","e"," ","o","f">>,
    <<"w","h","a","t"," ","i","s"," ","t","h","e"," ","p","r","i","c","e">>, <<"w","h","a","t"," ","i","s"," ","t","h","e"," ","c","o","s","t"," ","o","f">>, <<"w","h","a","t"," ","i","s"," ","t","h","e"," ","c","o","s","t">>, <<"w","h","a","t"," ","d","o","e","s"," ","i","t"," ","c","o","s","t">>,
    <<"p","r","i","c","e"," ","o","f">>, <<"c","o","s","t"," ","o","f">>, <<"p","r","i","c","i","n","g"," ","f","o","r">>, <<"i"," ","w","a","n","t"," ","t","o"," ","k","n","o","w">>, <<"i"," ","w","a","n","t">>, <<"t","e","l","l"," ","m","e">>,
    <<"g","i","v","e"," ","m","e">>, <<"s","h","o","w"," ","m","e">> >>

\* cleaned.replace(/[^a-z0-9\s]/g, ' ')
stripPunct(s) == [i \in 1..Len(s) |-> IF IsLower(s[i]) \/ IsDigit(s[i]) \/ IsSpace(s[i]) THEN s[i] ELSE " "]

\* .filter(word => !STOP_WORDS.has(word))
dropStopWords(ws) == SelectSeq(ws, LAMBDA w : w \notin STOP_WORDS)

cleanQuery(query) ==
    IF query = << >> THEN << >>
    ELSE trim(joinSpace(dropStopWords(splitWords(stripPunct(trim(toLowerCase(query)))))))

\* [...list].sort((a, b) => b.length - a.length): stable, longest first.
\* The element at position p is the one with p - 1 elements before it.
sortByLengthDesc(list) ==
    LET before(j, i) == Len(list[j]) > Len(list[i]) \/ (Len(list[j]) = Len(list[i]) /\ j < i)
        rank(i)      == Cardinality({j \in 1..Len(list) : before(j, i)}) + 1
    IN  [p \in 1..Len(list) |-> list[CHOOSE i \in 1..Len(list) : rank(i) = p]] \o << >>

\* list.forEach(p => { query = query.replace(new RegExp(p, 'gi'), ' ') })
RECURSIVE removeEach(_, _, _, _)
removeEach(query, list, wb, n) ==
    IF n > Len(list) THEN query
    ELSE LET next == regexReplaceAll(query, list[n], <<" ">>, wb)
         IN  IF Len(next) >= 0 THEN removeEach(next, list, wb, n + 1) ELSE next

SORTED_QUOTE_INDICATORS == sortByLengthDesc(QUOTE_INDICATORS)

extractQuoteQuery(message) ==
    LET q0 == trim(toLowerCase(message))
        q1 == removeEach(q0, SORTED_QUOTE_INDICATORS, TRUE, 1)
        q2 == removeEach(q1, QUOTE_PHRASES, FALSE, 1)
        q3 == trim(collapseSpaces(q2))
    IN  cleanQuery(q3)

someIncluded(lower, list) == \E i \in 1..Len(list) : includes(lower, list[i])

isPhotoRequest(message) == someIncluded(toLowerCase(message), PHOTO_INDICATORS)

isSpecRequest(message) == someIncluded(toLowerCase(message), SPEC_INDICATORS)

isQuoteRequest(message) == someIncluded(toLowerCase(message), QUOTE_INDICATORS)

PHOTO_PHRASES == <<
    <<"s","h","o","w"," ","m","e">>, <<"c","a","n"," ","i"," ","s","e","e">>, <<"l","e","t"," ","m","e"," ","s","e","e">>, <<"i"," ","w","a","n","t"," ","t","o"," ","s","e","e">>, <<"i"," ","w","a","n","t">>, <<"s","e","n","d"," ","m","e">>,
    <<"s","h","a","r","e">>, <<"d","i","s","p","l","a","y">>, <<"g","i","v","e"," ","m","e">> >>

SPEC_PHRASES == <<
    <<"t","e","l","l"," ","m","e"," ","a","b","o","u","t">>, <<"w","h","a","t"," ","a","r","e"," ","t","h","e">>, <<"w","h","a","t"," ","i","s"," ","t","h","e">>, <<"g","i","v","e"," ","m","e"," ","t","h","e">>, <<"s","h","o","w"," ","m","e"," ","t","h","e">>,
    <<"s","h","o","w"," ","m","e">>, <<"i"," ","w","a","n","t"," ","t","o"," ","k","n","o","w">>, <<"i"," ","w","a","n","t">>, <<"c","a","n"," ","y","o","u"," ","t","e","l","l"," ","m","e">>, <<"h","o","w"," ","a","b","o","u","t">>,
    <<"l","o","o","k","i","n","g"," ","f","o","r">>, <<"s","e","a","r","c","h"," ","f","o","r">>, <<"f","i","n","d"," ","m","e">>, <<"d","o"," ","y","o","u"," ","h","a","v","e">>, <<"i","n","f","o","r","m","a","t","i","o","n"," ","o","n">>,
    <<"i","n","f","o","r","m","a","t","i","o","n"," ","a","b","o","u","t">>, <<"d","e","t","a","i","l","s"," ","o","n">>, <<"d","e","t","a","i","l","s"," ","a","b","o","u","t">>, <<"c","a","n"," ","i"," ","s","e","e">>, <<"l","e","t"," ","m","e"," ","s","e","e">> >>

SORTED_PHOTO_INDICATORS == sortByLengthDesc(PHOTO_INDICATORS)

SORTED_SPEC_INDICATORS == sortByLengthDesc(SPEC_INDICATORS)

extractPhotoQuery(message) ==
    LET q0 == trim(toLowerCase(message))
        q1 == removeEach(q0, SORTED_PHOTO_INDICATORS, TRUE, 1)
        q2 == removeEach(q1, PHOTO_PHRASES, FALSE, 1)
        q3 == trim(collapseSpaces(q2))
    IN  cleanQuery(q3)

extractSpecQuery(message) ==
    LET q0 == trim(toLowerCase(message))
        q1 == removeEach(q0, SORTED_SPEC_INDICATORS, TRUE, 1)
        q2 == removeEach(q1, SPEC_PHRASES, FALSE, 1)
        q3 == trim(collapseSpaces(q2))
    IN  cleanQuery(q3)

\* Levenshtein matrix, one row at a time. prev is row i-1 as a tuple whose
\* element j+1 is matrix[i-1][j]. In row i, matrix[i][j] is the minimum of
\* deletion, insertion and substitution; the insertion chain
\* matrix[i][j-1]+1 is unfolded as min over k <= j of base[k] + (j-k).
nextRow(prev, i, c, str2) ==
    LET base(k) == IF k = 0 THEN i
                   ELSE LET cost == IF c = str2[k] THEN 0 ELSE 1
                            del  == prev[k + 1] + 1
                            sub  == prev[k] + cost
                        IN  IF del < sub THEN del ELSE sub
    IN  [j \in 1..(Len(str2) + 1) |-> Min({base(k) + ((j - 1) - k) : k \in 0..(j - 1)})] \o << >>

RECURSIVE fillMatrix(_, _, _, _)
fillMatrix(str1, str2, i, prev) ==
    IF i > Len(str1) THEN prev
    ELSE LET row == nextRow(prev, i, str1[i], str2)
         IN  IF Len(row) > 0 THEN fillMatrix(str1, str2, i + 1, row) ELSE row

distance(str1, str2) == fillMatrix(str1, str2, 1, [j \in 1..(Len(str2) + 1) |-> j - 1] \o << >>)[Len(str2) + 1]

\* calculateSimilarity as the fraction num/den (den > 0)
calculateSimilarity(str1, str2) ==
    IF Len(str1) = 0 /\ Len(str2) = 0 THEN [num |-> 1, den |-> 1]
    ELSE IF Len(str1) = 0 \/ Len(str2) = 0 THEN [num |-> 0, den |-> 1]
    ELSE LET maxLen == IF Len(str1) > Len(str2) THEN Len(str1) ELSE Len(str2)
         IN  [num |-> maxLen - distance(str1, str2), den |-> maxLen]

ScoreGT(a, b) == a.num * b.den > b.num * a.den

ScoreGE(a, b) == a.num * b.den >= b.num * a.den

(***************************************************************************)
(* Catalog store (prisma/seed.ts) and Catalog Resolver (catalog.service.ts) *)
(***************************************************************************)
\* carModel rows in storage order
CarModels == <<
    [id |-> 1, name |-> <<"X","p","a","n","d","e","r">>],
    [id |-> 2, name |-> <<"M","o","n","t","e","r","o"," ","S","p","o","r","t">>] >>

\* carVariant rows in storage order
CarVariants == <<
    [id |-> 1, modelId |-> 1, name |-> <<"G","L","X"," ","M","/","T">>, srp |-> 1068000],
    [id |-> 2, modelId |-> 1, name |-> <<"G","L","S"," ","A","/","T">>, srp |-> 1198000],
    [id |-> 3, modelId |-> 2, name |-> <<"G","L","X"," ","2","W","D"," ","M","/","T">>, srp |-> 1568000],
    [id |-> 4, modelId |-> 2, name |-> <<"B","l","a","c","k"," ","S","e","r","i","e","s">>, srp |-> 2100000] >>

VariantIds == {CarVariants[i].id : i \in 1..Len(CarVariants)}

\* the null of a lookup that finds nothing
NoVariant == 0

VariantById(id) == CarVariants[CHOOSE i \in 1..Len(CarVariants) : CarVariants[i].id = id]

ModelById(id) == CarModels[CHOOSE i \in 1..Len(CarModels) : CarModels[i].id = id]

\* `${variant.model.name} ${variant.name}`
FullName(id) == ModelById(VariantById(id).modelId).name \o <<" ">> \o VariantById(id).name

\* where: { name: { contains: q, mode: 'insensitive' } }
containsInsensitive(name, q) == includes(toLowerCase(name), toLowerCase(q))

\* the carModel and carVariant tables as seeded, in storage order
SeedCatalog == [models |-> CarModels, variants |-> CarVariants]

\* prisma.carVariant.findFirst / findMany(take: 1) with a contains filter: index of the first row, 0 if none
firstVariantContainingIn(cat, q) ==
    IF \E i \in 1..Len(cat.variants) : containsInsensitive(cat.variants[i].name, q)
    THEN CHOOSE i \in 1..Len(cat.variants) :
            /\ containsInsensitive(cat.variants[i].name, q)
            /\ \A j \in 1..(i - 1) : ~containsInsensitive(cat.variants[j].name, q)
    ELSE 0

firstVariantContaining(q) == firstVariantContainingIn(SeedCatalog, q)

\* prisma.carModel.findFirst with a contains filter: index of the first row, 0 if none
firstModelContainingIn(cat, q) ==
    IF \E i \in 1..Len(cat.models) : containsInsensitive(cat.models[i].name, q)
    THEN CHOOSE i \in 1..Len(cat.models) :
            /\ containsInsensitive(cat.models[i].name, q)
            /\ \A j \in 1..(i - 1) : ~containsInsensitive(cat.models[j].name, q)
    ELSE 0

firstModelContaining(q) == firstModelContainingIn(SeedCatalog, q)

\* include: { variants: ... } of a model: the indices of its variants in storage order
RECURSIVE variantsOfFrom(_, _, _)
variantsOfFrom(cat, modelId, i) ==
    IF i > Len(cat.variants) THEN << >>
    ELSE (IF cat.variants[i].modelId = modelId THEN <<i>> ELSE << >>) \o variantsOfFrom(cat, modelId, i + 1)

variantsOfIn(cat, modelId) == variantsOfFrom(cat, modelId, 1)

variantsOf(modelId) == variantsOfIn(SeedCatalog, modelId)

\* s.replace(/\s+/g, '')
regexReplaceSpaces(s) == SelectSeq(s, LAMBDA c : ~IsSpace(c))

FUZZY_MATCH_THRESHOLD == [num |-> 6, den |-> 10]

\* the four candidate strings compared with the query for one (model, variant) pair
combinations(model, variant) ==
    LET both == toLowerCase(model.name \o <<" ">> \o variant.name)
    IN  << toLowerCase(variant.name),
           toLowerCase(model.name),
           both,
           regexReplaceSpaces(both) >>

\* for (const model of allModels) for (const variant of model.variants): the
\* (model index, variant index) pairs in the order the fuzzy scan visits them
RECURSIVE scanOrderFrom(_, _)
scanOrderFrom(cat, m) ==
    IF m > Len(cat.models) THEN << >>
    ELSE LET vs == variantsOfIn(cat, cat.models[m].id)
         IN  [n \in 1..Len(vs) |-> <<m, vs[n]>>] \o scanOrderFrom(cat, m + 1)

scanOrder(cat) == scanOrderFrom(cat, 1)

\* the fuzzy scan: best = [score, id], updated when score > bestScore && score >= threshold
RECURSIVE fuzzyScan(_, _, _, _, _, _)
fuzzyScan(cat, order, queryLower, i, k, best) ==
    IF i > Len(order) THEN best
    ELSE IF k > 4 THEN fuzzyScan(cat, order, queryLower, i + 1, 1, best)
    ELSE LET variant == cat.variants[order[i][2]]
             score   == calculateSimilarity(queryLower, combinations(cat.models[order[i][1]], variant)[k])
         IN  IF ScoreGT(score, best.score) /\ ScoreGE(score, FUZZY_MATCH_THRESHOLD)
             THEN fuzzyScan(cat, order, queryLower, i, k + 1, [score |-> score, id |-> variant.id])
             ELSE fuzzyScan(cat, order, queryLower, i, k + 1, best)

\* tier 1: the whole query inside a variant name
tier1In(cat, query) ==
    LET i == firstVariantContainingIn(cat, query) IN IF i = 0 THEN NoVariant ELSE cat.variants[i].id

tier1(query) == tier1In(SeedCatalog, query)

\* modelMatch.variants[0]: the include of tier 2 has no orderBy
firstOf(cat, vs) == cat.variants[vs[1]].id

\* tier 2: first word as the model, the rest as the variant
tier2In(cat, query) ==
    LET words == splitOnSpace(toLowerCase(query))
    IN  IF Len(words) < 2 THEN NoVariant
        ELSE LET possibleModel   == words[1]
                 possibleVariant == joinSpace(Tail(words))
                 m               == firstModelContainingIn(cat, possibleModel)
             IN  IF m = 0 THEN NoVariant
                 ELSE LET vs == variantsOfIn(cat, cat.models[m].id)
                      IN  IF vs = << >> THEN NoVariant
                          ELSE IF \E n \in 1..Len(vs) : includes(toLowerCase(cat.variants[vs[n]].name), possibleVariant)
                               THEN cat.variants[vs[CHOOSE n \in 1..Len(vs) :
                                        /\ includes(toLowerCase(cat.variants[vs[n]].name), possibleVariant)
                                        /\ \A j \in 1..(n - 1) : ~includes(toLowerCase(cat.variants[vs[j]].name), possibleVariant)]].id
                               ELSE firstOf(cat, vs)

tier2(query) == tier2In(SeedCatalog, query)

tier3In(cat, query) ==
    fuzzyScan(cat, scanOrder(cat), toLowerCase(query), 1, 1, [score |-> [num |-> 0, den |-> 1], id |-> NoVariant]).id

tier3(query) == tier3In(SeedCatalog, query)

tier4In(cat, query) ==
    LET words == splitOnSpace(toLowerCase(query))
        i     == firstVariantContainingIn(cat, words[1])
    IN  IF i = 0 THEN NoVariant ELSE cat.variants[i].id

tier4(query) == tier4In(SeedCatalog, query)

\* searchVariantByName of api/src/services/catalog.service.ts: no fuzzy tier
searchVariantByNameNoFuzzy(cat, query) ==
    IF tier1In(cat, query) # NoVariant THEN tier1In(cat, query)
    ELSE IF tier2In(cat, query) # NoVariant THEN tier2In(cat, query)
    ELSE tier4In(cat, query)

\* CatalogService.searchVariantByName over a catalog: the id of the variant found, NoVariant for null
searchVariantByNameIn(cat, query) ==
    IF tier1In(cat, query) # NoVariant THEN tier1In(cat, query)
    ELSE IF tier2In(cat, query) # NoVariant THEN tier2In(cat, query)
    ELSE IF tier3In(cat, query) # NoVariant THEN tier3In(cat, query)
    ELSE tier4In(cat, query)

\* CatalogService.searchVariantByName on the seeded catalog
searchVariantByName(query) == searchVariantByNameIn(SeedCatalog, query)

\* the null of a model lookup that finds nothing
NoModel == 0

\* getModelByName, fuzzy fallback: bestMatch is replaced when score > bestScore && score >= threshold
RECURSIVE fuzzyModelScan(_, _, _)
fuzzyModelScan(nameLower, i, best) ==
    IF i > Len(CarModels) THEN best
    ELSE LET score == calculateSimilarity(nameLower, toLowerCase(CarModels[i].name))
         IN  IF ScoreGT(score, best.score) /\ ScoreGE(score, FUZZY_MATCH_THRESHOLD)
             THEN fuzzyModelScan(nameLower, i + 1, [score |-> score, id |-> CarModels[i].id])
             ELSE fuzzyModelScan(nameLower, i + 1, best)

\* CatalogService.getModelByName: the id of the model found, NoModel for null
getModelByName(name) ==
    LET m == firstModelContaining(name)
    IN  IF m # 0 THEN CarModels[m].id
        ELSE fuzzyModelScan(toLowerCase(name), 1, [score |-> [num |-> 0, den |-> 1], id |-> NoModel]).id

\* carMedia rows in storage order
CarMedia == <<
    [id |-> 1, variantId |-> 2, type |-> "IMAGE"],
    [id |-> 2, variantId |-> 2, type |-> "IMAGE"],
    [id |-> 3, variantId |-> 2, type |-> "IMAGE"] >>

\* CatalogService.getVariantPhotos: the IMAGE rows of a variant
getVariantPhotos(variantId) ==
    SelectSeq(CarMedia, LAMBDA row : row.variantId = variantId /\ row.type = "IMAGE")

\* Object.keys(variant.specs) of every variant
SpecKeys == [id \in VariantIds |->
    CASE id = 1 -> {"engine", "seats"}
      [] id = 2 -> {"engine", "seats", "features"}
      [] id = 3 -> {"engine", "seats"}
      [] id = 4 -> {"engine", "seats", "features"}]

(***************************************************************************)
(* Inbound events                                                          *)
(***************************************************************************)
Users == {"u1"}

\* the two webhook requests that may be in progress at once
Turns == {"t1", "t2"}

\* message.text of the text events
TextContents == {
    <<"q","u","o","t","e">>, <<"q","u","o","t","e"," ","x","p","a","n","d","e","r"," ","g","l","s">>, <<"p","r","i","c","e"," ","o","f"," ","z","z","z">>, <<"x","p","a","n","d","e","r"," ","g","l","s">>, <<"z","z","z">>,
    <<"c","a","s","h">>, <<"f","i","n","a","n","c","i","n","g">>, <<"2","0","%">>, <<"0">>, <<"1","5","0">>, <<"3","6">>, <<"1","2",".","5">>,
    <<" ","C","a","n","c","e","l"," ">>, <<"S","T","O","P">>, <<"e","x","i","t">>, <<"h","i">>, <<"m","o","d","e","l","s">>, <<"h","a","c","k">>, <<"e","n","g","i","n","e">>,
    <<"p","h","o","t","o","s"," ","o","f"," ","x","p","a","n","d","e","r">>, <<"s","p","e","c","s"," ","o","f"," ","x","p","a","n","d","e","r"," ","g","l","s">>, <<"p","r","i","c","e"," ","o","f"," ","t","h","i","s">> }

\* message.quick_reply.payload of the events that carry no text
QuickReplyPayloads == {
    <<"G","E","T","_","Q","U","O","T","E">>, <<"P","A","Y","M","E","N","T","_","C","A","S","H">>, <<"P","A","Y","M","E","N","T","_","F","I","N","A","N","C","I","N","G">>, <<"D","O","W","N","_","P","A","Y","M","E","N","T","_","2","0">>, <<"T","E","R","M","_","1","2">>,
    <<"c","a","n","c","e","l">>, <<"h","a","c","k">>, <<"S","E","L","E","C","T","_","G","L","S","_","A","/","T">>, <<"S","E","L","E","C","T","_","z","z","z">>, <<"S","H","O","W","_","M","O","D","E","L","S">> }

\* postback.payload
PostbackPayloads == { <<"s","p","e","c","s","_","X","p","a","n","d","e","r","_","G","L","S"," ","A","/","T">>, <<"s","p","e","c","s","_","z","z","z">>, <<"c","a","n","c","e","l">>, <<"h","a","c","k">> }

Events ==
    {[kind |-> "text", content |-> c] : c \in TextContents}
    \cup {[kind |-> "quick_reply", content |-> c] : c \in QuickReplyPayloads}
    \cup {[kind |-> "postback", content |-> c] : c \in PostbackPayloads}

\* the events offered while two turns of one user overlap
OverlapEvents ==
    {[kind |-> "text", content |-> c] : c \in { <<"q","u","o","t","e"," ","x","p","a","n","d","e","r"," ","g","l","s">>, <<"c","a","s","h">>, <<"f","i","n","a","n","c","i","n","g">> }}

\* payload.replace(/^select_/i, '').replace(/_/g, ' ')
selectedName(payload) ==
    LET rest == IF startsWith(toLowerCase(payload), <<"s","e","l","e","c","t","_">>) THEN SubSeq(payload, 8, Len(payload)) ELSE payload
    IN  [i \in 1..Len(rest) |-> IF rest[i] = "_" THEN " " ELSE rest[i]]

\* What the language-model call can put into an entity field; '' is an absent one
LLMEntityValues == { << >>, <<"G","L","S"," ","A","/","T">>, <<"z","z","z">> }

\* extractQuoteQuery(messageText) of every text the model receives
QuoteQuery == [m \in TextContents |-> extractQuoteQuery(m)]

\* extractPhotoQuery(messageText) of every text the model receives
PhotoQuery == [m \in TextContents |-> extractPhotoQuery(m)]

\* extractSpecQuery(messageText) of every text the model receives
SpecQuery == [m \in TextContents |-> extractSpecQuery(m)]

\* cleanQuery(messageText) of every text the model receives
CleanQuery == [m \in TextContents |-> cleanQuery(m)]

\* payload.replace('specs_', '').split('_').join(' ') of a payload that starts with 'specs_'
specsPostbackQuery(payload) ==
    LET rest == SubSeq(payload, 7, Len(payload))
    IN  [i \in 1..Len(rest) |-> IF rest[i] = "_" THEN " " ELSE rest[i]]

\* the strings the model hands to the Catalog Resolver
Queries ==
    TextContents \cup QuickReplyPayloads \cup LLMEntityValues
    \cup {QuoteQuery[m] : m \in TextContents}
    \cup {selectedName(p) : p \in QuickReplyPayloads}
    \cup {PhotoQuery[m] : m \in TextContents}
    \cup {SpecQuery[m] : m \in TextContents}
    \cup {CleanQuery[m] : m \in TextContents}
    \cup {specsPostbackQuery(p) : p \in {c \in PostbackPayloads : startsWith(c, <<"s","p","e","c","s","_">>)}}

\* catalogService.searchVariantByName(q) of every such string
VariantFound == [q \in Queries |-> searchVariantByName(q)]

\* the car tables, as catalogService.searchVariantByName answers on them: query ->
\* variant found. The rows are seeded once; no handler writes them.
VARIABLE carIndex

\* catalogService.getModelByName(q) of every such string
ModelFound == [q \in Queries |-> getModelByName(q)]

(***************************************************************************)
(* Content-safety guardrail (guardrails.service.ts)                        *)
(***************************************************************************)
blockedTopics == <<
    <<"h","a","c","k">>, <<"c","r","a","c","k">>, <<"e","x","p","l","o","i","t">>, <<"i","l","l","e","g","a","l">>, <<"s","t","o","l","e","n">>, <<"f","r","a","u","d">>,
    <<"s","c","a","m">>, <<"f","a","k","e">>, <<"c","o","u","n","t","e","r","f","e","i","t">>, <<"d","a","n","g","e","r","o","u","s">>, <<"w","e","a","p","o","n">> >>

\* GuardrailsService.checkContentSafety(message).allowed
checkContentSafety(message) == ~someIncluded(toLowerCase(message), blockedTopics)

(***************************************************************************)
(* Intent Classifier (llm.service.ts)                                      *)
(***************************************************************************)
Intents == {"greeting", "show_models", "show_specs", "show_photos", "get_quote", "general_question", "unknown"}

\* /a.*b/ on a single-line string: a occurs and b occurs after the end of a
matchesThen(s, a, b) ==
    \E i \in 1..Len(s) : \E j \in 1..Len(s) : MatchAt(s, a, i) /\ MatchAt(s, b, j) /\ j >= i + Len(a)

GREETINGS == << <<"h","i">>, <<"h","e","l","l","o">>, <<"h","e","y">>, <<"g","o","o","d"," ","m","o","r","n","i","n","g">>, <<"g","o","o","d"," ","a","f","t","e","r","n","o","o","n">>, <<"s","t","a","r","t">> >>

KNOWN_MODELS == << <<"x","p","a","n","d","e","r">>, <<"m","o","n","t","e","r","o">>, <<"m","i","r","a","g","e">>, <<"l","a","n","c","e","r">>, <<"s","t","r","a","d","a">>, <<"t","r","i","t","o","n">> >>

\* entities: '' stands for an absent (undefined / null) entity
NoEntities == [model |-> << >>, variant |-> << >>]

\* LLMService.fallbackIntentDetection
fallbackIntentDetection(message) ==
    LET lowerMessage == toLowerCase(message)
    IN  IF listIncludes(GREETINGS, lowerMessage)
        THEN [intent |-> "greeting", entities |-> NoEntities]
        ELSE IF \/ someIncluded(lowerMessage, << <<"m","o","d","e","l">>, <<"c","a","r","s">>, <<"a","v","a","i","l","a","b","l","e">> >>)
                \/ matchesThen(lowerMessage, <<"w","h","a","t">>, <<"c","a","r">>)
                \/ matchesThen(lowerMessage, <<"w","h","a","t">>, <<"v","e","h","i","c","l","e">>)
                \/ matchesThen(lowerMessage, <<"s","h","o","w">>, <<"c","a","r">>)
        THEN [intent |-> "show_models", entities |-> NoEntities]
        ELSE IF someIncluded(lowerMessage, << <<"s","p","e","c">>, <<"s","p","e","c","s">>, <<"s","p","e","c","i","f","i","c","a","t","i","o","n">>, <<"e","n","g","i","n","e">>, <<"f","e","a","t","u","r","e">> >>)
        THEN [intent |-> "show_specs", entities |-> NoEntities]
        ELSE IF \/ someIncluded(lowerMessage, << <<"p","h","o","t","o">>, <<"p","h","o","t","o","s">>, <<"p","i","c","t","u","r","e">>, <<"p","i","c","t","u","r","e","s">>, <<"i","m","a","g","e">>, <<"i","m","a","g","e","s">> >>)
                \/ matchesThen(lowerMessage, <<"s","e","e">>, <<"c","a","r">>)
        THEN [intent |-> "show_photos", entities |-> NoEntities]
        ELSE IF someIncluded(lowerMessage, << <<"p","r","i","c","e">>, <<"c","o","s","t">>, <<"h","o","w"," ","m","u","c","h">>, <<"q","u","o","t","e">>, <<"p","r","i","c","i","n","g">>, <<"d","i","s","c","o","u","n","t">>, <<"f","i","n","a","n","c","i","n","g">> >>)
        THEN [intent |-> "get_quote", entities |-> NoEntities]
        ELSE IF someIncluded(lowerMessage, KNOWN_MODELS)
        THEN [intent |-> "general_question",
              entities |-> [model |-> KNOWN_MODELS[CHOOSE i \in 1..Len(KNOWN_MODELS) :
                                        /\ includes(lowerMessage, KNOWN_MODELS[i])
                                        /\ \A j \in 1..(i - 1) : ~includes(lowerMessage, KNOWN_MODELS[j])],
                            variant |-> << >>]]
        ELSE [intent |-> "unknown", entities |-> NoEntities]

\* What the language-model call can come back with: a failure (network
\* error, timeout, text that JSON.parse rejects) or a parsed object whose
\* fields are whatever the model wrote. intent "" is a missing intent.
LLMIntents == Intents \cup {"", "book_test_drive"}

LLMResponses ==
    {[ok |-> FALSE, intent |-> "", entities |-> NoEntities]}
    \cup {[ok |-> TRUE, intent |-> i, entities |-> [model |-> << >>, variant |-> v]] :
            i \in LLMIntents, v \in LLMEntityValues}

\* LLMService.detectIntent: the parsed response, or the fallback on any error
detectIntent(message, response) ==
    IF response.ok
    THEN [intent |-> IF response.intent = "" THEN "unknown" ELSE response.intent,
          entities |-> response.entities]
    ELSE fallbackIntentDetection(message)

\* handleMessagingEvent, text branch: the detection the routing uses
detection(apiKeySet, message, response) ==
    IF apiKeySet THEN detectIntent(message, response)
    ELSE [intent |-> "unknown", entities |-> NoEntities]

\* a || b on strings
Or(a, b) == IF a # << >> THEN a ELSE b

\* handleMessagingEvent, text branch: the capability the turn is routed to
route(intent, messageText) ==
    LET lowerMessage == toLowerCase(messageText)
    IN  IF \/ intent = "greeting"
           \/ someIncluded(lowerMessage, << <<"h","i">>, <<"h","e","l","l","o">>, <<"h","e","y">> >>)
           \/ lowerMessage = <<"s","t","a","r","t">>
        THEN "greeting"
        ELSE IF intent = "show_models" \/ someIncluded(lowerMessage, << <<"m","o","d","e","l","s">>, <<"a","v","a","i","l","a","b","l","e">>, <<"c","a","r","s">> >>)
        THEN "show_models"
        ELSE IF intent = "get_quote" \/ isQuoteRequest(messageText)
        THEN "get_quote"
        ELSE IF intent = "show_photos" \/ isPhotoRequest(messageText)
        THEN "show_photos"
        ELSE IF intent = "show_specs" \/ isSpecRequest(messageText)
        THEN "show_specs"
        ELSE IF intent = "general_question" \/ intent = "unknown"
        THEN "general_question"
        ELSE "fallback"

\* GuardrailsService.checkSpecsQuestion: allowed, or the suggestion to send instead
checkSpecsQuestion(message) ==
    LET variant == carIndex[message]
    IN  IF variant = NoVariant
        THEN [allowed |-> FALSE, suggestion |-> "specs_specify_variant"]
        ELSE IF SpecKeys[variant] = {}
        THEN [allowed |-> FALSE, suggestion |-> "specs_unavailable"]
        ELSE [allowed |-> TRUE, suggestion |-> ""]

\* handleSpecsRequest: the message it sends
handleSpecsRequest(query) ==
    IF query = << >> THEN "specs_ask_variant"
    ELSE IF carIndex[query] = NoVariant THEN "specs_not_found"
    ELSE "specs_answer"

\* handlePhotosRequest: the message it sends
handlePhotosRequest(query) ==
    IF query = << >> THEN "photos_ask_model"
    ELSE IF ModelFound[query] = NoModel THEN "photos_not_found"
    ELSE IF \A i \in 1..Len(CarVariants) :
                CarVariants[i].modelId = ModelFound[query] => getVariantPhotos(CarVariants[i].id) = << >>
    THEN "photos_none"
    ELSE "photos_carousel"

\* entities?.model || entities?.variant || extractPhotoQuery(messageText) || cleanQuery(messageText)
photoQueryOf(entities, messageText) ==
    Or(entities.model, Or(entities.variant, Or(PhotoQuery[messageText], CleanQuery[messageText])))

\* entities?.variant || entities?.model || extractSpecQuery(messageText) || cleanQuery(messageText)
specQueryOf(entities, messageText) ==
    Or(entities.variant, Or(entities.model, Or(SpecQuery[messageText], CleanQuery[messageText])))

\* handleMessagingEvent, text branch: the message a capability other than get_quote sends
answerOf(capability, entities, messageText) ==
    IF capability = "show_photos" THEN handlePhotosRequest(photoQueryOf(entities, messageText))
    ELSE IF capability = "show_specs"
    THEN LET query == specQueryOf(entities, messageText)
             specsCheck == checkSpecsQuestion(query)
         IN  IF ~specsCheck.allowed THEN specsCheck.suggestion ELSE handleSpecsRequest(query)
    ELSE capability

\* the capability a sent message belongs to
capabilityOf(tag) ==
    IF tag \in {"photos_ask_model", "photos_not_found", "photos_none", "photos_carousel"} THEN "show_photos"
    ELSE IF tag \in {"specs_specify_variant", "specs_unavailable", "specs_ask_variant",
                     "specs_not_found", "specs_answer"} THEN "show_specs"
    ELSE tag

\* entities?.variant || entities?.model || extractQuoteQuery(messageText) || undefined
variantQueryOf(entities, messageText) ==
    Or(entities.variant, Or(entities.model, QuoteQuery[messageText]))

(***************************************************************************)
(* Pricing Calculator (pricing.service.ts)                                 *)
(***************************************************************************)
\* an absent (undefined) number
Undef == -1

\* !x on a number-or-undefined
falsy(x) == x = Undef \/ x = 0

\* priceRule rows, most recently updated first (prisma/seed.ts); a fee or
\* promo that the rule does not carry is Undef
PriceRules == <<
    [region |-> "NCR", registration |-> 5000, chattel |-> 15000, insurance |-> 0,
     others |-> 2000, discount |-> 10000] >>

RECURSIVE gcd(_, _)
gcd(a, b) == IF b = 0 THEN a ELSE gcd(b, a % b)

\* the fraction n/d in lowest terms (d > 0, n >= 0)
Frac(n, d) == LET g == gcd(n, d) IN [num |-> n \div g, den |-> d \div g]

\* PricingService.getPriceRules over a priceRule table: index of the first rule of the region, 0 for null
getPriceRulesIn(rules, region) ==
    IF \E i \in 1..Len(rules) : rules[i].region = region
    THEN CHOOSE i \in 1..Len(rules) :
            rules[i].region = region /\ \A j \in 1..(i - 1) : rules[j].region # region
    ELSE 0

\* PricingService.getPriceRules on the seeded table
getPriceRules(region) == getPriceRulesIn(PriceRules, region)

\* a + b on fractions, over the least common denominator
FracAdd(a, b) ==
    LET l == (a.den \div gcd(a.den, b.den)) * b.den
    IN  Frac(a.num * (l \div a.den) + b.num * (l \div b.den), l)

\* a * b on fractions, cancelling across before multiplying
FracMul(a, b) ==
    LET g1 == gcd(a.num, b.den)
        g2 == gcd(b.num, a.den)
    IN  Frac((a.num \div g1) * (b.num \div g2), (a.den \div g2) * (b.den \div g1))

\* input.addons?.reduce((sum, addon) => sum + addon.price, 0) || 0
RECURSIVE sumPrices(_)
sumPrices(addons) == IF addons = << >> THEN 0 ELSE Head(addons) + sumPrices(Tail(addons))

\* fees.insurance || srp * 0.025 (the seeded prices are multiples of 40)
insuranceFee(fee, srp) == IF falsy(fee) THEN (srp * 25) \div 1000 ELSE fee

\* the annual rate in tenths of a percent: 5.5 is 55
DEFAULT_RATE_TENTHS == 55

NoCalculation == [found |-> FALSE]

\* PricingService.calculatePrice over a priceRule table; amounts that need
\* not be whole pesos are fractions, the annual rate is in tenths of a percent
calculatePriceWith(rules, input) ==
    IF input.variantId \notin VariantIds THEN NoCalculation
    ELSE LET variant == VariantById(input.variantId)
             r       == getPriceRulesIn(rules, input.region)
             srp             == variant.srp
             addonsTotal     == sumPrices(input.addons)
             registrationFee == IF r = 0 \/ falsy(rules[r].registration) THEN 5000 ELSE rules[r].registration
             chattelFee      == IF r = 0 \/ falsy(rules[r].chattel) THEN 15000 ELSE rules[r].chattel
             insurance       == insuranceFee(IF r = 0 THEN Undef ELSE rules[r].insurance, srp)
             otherFees       == IF r = 0 \/ rules[r].others = Undef THEN 0 ELSE rules[r].others
             feesTotal       == registrationFee + chattelFee + insurance + otherFees
             discount        == IF r = 0 \/ falsy(rules[r].discount) THEN 0 ELSE rules[r].discount
             subtotal        == srp + addonsTotal + feesTotal
             total           == subtotal - discount
             wantsFinancing  == input.downPaymentPercent # Undef /\ ~falsy(input.financingMonths)
             downPayment     == Frac(total * input.downPaymentPercent, 100)
             amountFinanced  == Frac(total * (100 - input.downPaymentPercent), 100)
             rate            == IF falsy(input.interestRate) THEN DEFAULT_RATE_TENTHS ELSE input.interestRate
             months          == input.financingMonths
             \* (rate / 100) * (months / 12)
             factor          == Frac(rate * months, 12000)
             totalInterest   == FracMul(amountFinanced, factor)
             monthly         == FracMul(FracAdd(amountFinanced, totalInterest), Frac(1, months))
             totalPayable    == FracAdd(downPayment, FracMul(monthly, Frac(months, 1)))
         IN  [found |-> TRUE,
              breakdown |-> [srp |-> srp, addons |-> addonsTotal,
                             fees |-> [registration |-> registrationFee, chattel |-> chattelFee,
                                       insurance |-> insurance, others |-> otherFees, total |-> feesTotal],
                             promos |-> [discount |-> discount],
                             subtotal |-> subtotal, total |-> total],
              cash |-> [total |-> total],
              financing |-> IF wantsFinancing
                            THEN [present |-> TRUE, downPayment |-> downPayment,
                                  downPaymentPercent |-> input.downPaymentPercent,
                                  amountFinanced |-> amountFinanced, monthlyAmortization |-> monthly,
                                  months |-> months, interestRate |-> rate,
                                  totalInterest |-> totalInterest, totalPayable |-> totalPayable]
                            ELSE [present |-> FALSE]]

\* PricingService.calculatePrice on the seeded priceRule table
calculatePrice(input) == calculatePriceWith(PriceRules, input)

(***************************************************************************)
(* Quote Dialogue Controller (quote-flow.service.ts)                       *)
(***************************************************************************)
QuoteStep == {"IDLE", "ASK_VARIANT", "ASK_PAYMENT_TYPE", "ASK_DOWN_PAYMENT", "ASK_FINANCING_TERM",
              "CONFIRM_DETAILS", "GENERATE_QUOTE"}

\* context: {}
EmptyContext == [variantId |-> Undef, variantName |-> << >>, paymentType |-> "",
                 downPaymentPercent |-> Undef, financingMonths |-> Undef]

\* { step: QuoteStep.IDLE, context: {} }
IdleState == [step |-> "IDLE", context |-> EmptyContext]

\* no row for the user in the session table
NoRow == [step |-> "NO_ROW", context |-> EmptyContext]

\* a session key shared by all users
sessionKeyShared(userId) == "u1"

\* where: { id: userId }: the key of the row of a user in the session table
sessionKey(userId) == userId

\* QuoteFlowService.getSession on the stored row
getSession(row) == IF row = NoRow THEN IdleState ELSE row

\* isInQuoteFlow that never finds the user in the flow
isInQuoteFlowNever(row) == FALSE

\* QuoteFlowService.isInQuoteFlow on the stored row
isInQuoteFlow(row) == getSession(row).step # "IDLE"

\* What a handler hands back: the state it built, whether it is to be
\* persisted (updateSession) before the turn goes on, and the reply it chose.
Result(state, persist, reply) == [state |-> state, persist |-> persist, reply |-> reply]

\* startQuoteFlow that never looks the hint up
startQuoteFlowNoHint(variantQuery) ==
    Result([step |-> "ASK_VARIANT", context |-> EmptyContext], TRUE, "ask_variant")

\* QuoteFlowService.startQuoteFlow up to its updateSession; variantQuery << >> is undefined
startQuoteFlow(variantQuery) ==
    LET variant == IF variantQuery # << >> THEN carIndex[variantQuery] ELSE NoVariant
    IN  IF variant # NoVariant
        THEN Result([step |-> "ASK_PAYMENT_TYPE",
                     context |-> [EmptyContext EXCEPT !.variantId = variant, !.variantName = FullName(variant)]],
                    TRUE, "found_ask_payment")
        ELSE Result([step |-> "ASK_VARIANT", context |-> EmptyContext], TRUE, "ask_variant")

\* QuoteFlowService.handleAskVariant up to its updateSession
handleAskVariant(message, state) ==
    LET variant == carIndex[message]
    IN  IF variant = NoVariant
        THEN Result(state, FALSE, "variant_not_found")
        ELSE Result([step |-> "ASK_PAYMENT_TYPE",
                     context |-> [state.context EXCEPT !.variantId = variant, !.variantName = FullName(variant)]],
                    TRUE, "found_ask_payment")

CASH_WORDS == << <<"c","a","s","h">>, <<"1">>, <<"f","u","l","l">>, <<"o","n","e">>, <<"p","a","y","m","e","n","t","_","c","a","s","h">> >>

FINANCING_WORDS == << <<"f","i","n","a","n","c","i","n","g">>, <<"f","i","n","a","n","c","e">>, <<"2">>, <<"m","o","n","t","h","l","y">>, <<"i","n","s","t","a","l","l","m","e","n","t">>, <<"t","w","o">>, <<"p","a","y","m","e","n","t","_","f","i","n","a","n","c","i","n","g">> >>

\* handleAskPaymentType without the updateSession of the cash branch
handleAskPaymentTypeUnsaved(message, state) ==
    LET lowerMessage == toLowerCase(message)
    IN  IF listIncludes(CASH_WORDS, lowerMessage)
        THEN Result([step |-> "GENERATE_QUOTE", context |-> [state.context EXCEPT !.paymentType = "cash"]],
                    FALSE, "quote")
        ELSE IF listIncludes(FINANCING_WORDS, lowerMessage)
        THEN Result([step |-> "ASK_DOWN_PAYMENT", context |-> [state.context EXCEPT !.paymentType = "financing"]],
                    TRUE, "ask_down_payment")
        ELSE Result(state, FALSE, "choose_payment")

\* QuoteFlowService.handleAskPaymentType up to its updateSession
handleAskPaymentType(message, state) ==
    LET lowerMessage == toLowerCase(message)
    IN  IF listIncludes(CASH_WORDS, lowerMessage)
        THEN Result([step |-> "GENERATE_QUOTE", context |-> [state.context EXCEPT !.paymentType = "cash"]],
                    TRUE, "quote")
        ELSE IF listIncludes(FINANCING_WORDS, lowerMessage)
        THEN Result([step |-> "ASK_DOWN_PAYMENT", context |-> [state.context EXCEPT !.paymentType = "financing"]],
                    TRUE, "ask_down_payment")
        ELSE Result(state, FALSE, "choose_payment")

\* the percentage handleAskDownPayment reads from the message
downPaymentOf(message) ==
    LET lowerMessage == toLowerCase(message)
    IN  IF startsWith(lowerMessage, <<"d","o","w","n","_","p","a","y","m","e","n","t","_">>)
        THEN parseInt(replaceFirst(lowerMessage, <<"d","o","w","n","_","p","a","y","m","e","n","t","_">>, << >>))
        ELSE parseInt(trim(replaceFirst(message, <<"%">>, << >>)))

\* handleAskDownPayment that goes on to the quote without asking for the term
handleAskDownPaymentNoTerm(message, state) ==
    LET percentage == downPaymentOf(message)
    IN  IF isNaN(percentage) \/ percentage.val < 0 \/ percentage.val > 100
        THEN Result(state, FALSE, "invalid_percentage")
        ELSE Result([step |-> "GENERATE_QUOTE",
                     context |-> [state.context EXCEPT !.downPaymentPercent = percentage.val]],
                    TRUE, "quote")

\* handleAskDownPayment that accepts any number as the percentage
handleAskDownPaymentAnyPercent(message, state) ==
    LET percentage == downPaymentOf(message)
    IN  IF isNaN(percentage)
        THEN Result(state, FALSE, "invalid_percentage")
        ELSE Result([step |-> "ASK_FINANCING_TERM",
                     context |-> [state.context EXCEPT !.downPaymentPercent = percentage.val]],
                    TRUE, "ask_term")

\* QuoteFlowService.handleAskDownPayment up to its updateSession
handleAskDownPayment(message, state) ==
    LET percentage == downPaymentOf(message)
    IN  IF isNaN(percentage) \/ percentage.val < 0 \/ percentage.val > 100
        THEN Result(state, FALSE, "invalid_percentage")
        ELSE Result([step |-> "ASK_FINANCING_TERM",
                     context |-> [state.context EXCEPT !.downPaymentPercent = percentage.val]],
                    TRUE, "ask_term")

validTerms == <<12, 24, 36, 48, 60>>

\* the number of months handleAskFinancingTerm reads from the message
termOf(message) ==
    LET lowerMessage == toLowerCase(message)
    IN  IF startsWith(lowerMessage, <<"t","e","r","m","_">>)
        THEN parseInt(replaceFirst(lowerMessage, <<"t","e","r","m","_">>, << >>))
        ELSE parseInt(trim(message))

\* QuoteFlowService.handleAskFinancingTerm up to its updateSession
handleAskFinancingTerm(message, state) ==
    LET months == termOf(message)
    IN  IF isNaN(months) \/ ~\E i \in 1..Len(validTerms) : validTerms[i] = months.val
        THEN Result(state, FALSE, "invalid_term")
        ELSE Result([step |-> "GENERATE_QUOTE",
                     context |-> [state.context EXCEPT !.financingMonths = months.val]],
                    TRUE, "quote")

\* the PricingInput generateQuote builds from the state
pricingInput(state) ==
    [variantId |-> state.context.variantId,
     region |-> "NCR",
     addons |-> << >>,
     interestRate |-> Undef,
     downPaymentPercent |-> IF state.context.paymentType = "financing"
                            THEN (IF falsy(state.context.downPaymentPercent) THEN 20
                                  ELSE state.context.downPaymentPercent)
                            ELSE Undef,
     financingMonths |-> IF state.context.paymentType = "financing"
                         THEN (IF falsy(state.context.financingMonths) THEN 60
                               ELSE state.context.financingMonths)
                         ELSE Undef]

CANCEL_WORDS == << <<"c","a","n","c","e","l">>, <<"s","t","o","p">>, <<"e","x","i","t">> >>

\* the cancellation test without toLowerCase().trim()
isCancelExact(message) == listIncludes(CANCEL_WORDS, message)

\* processMessage: ['cancel', 'stop', 'exit'].includes(message.toLowerCase().trim())
isCancel(message) == listIncludes(CANCEL_WORDS, trim(toLowerCase(message)))

\* processMessage: the switch on state.step, for the steps that have a handler of their own
dispatch(message, state) ==
    CASE state.step = "ASK_VARIANT"        -> handleAskVariant(message, state)
      [] state.step = "ASK_PAYMENT_TYPE"   -> handleAskPaymentType(message, state)
      [] state.step = "ASK_DOWN_PAYMENT"   -> handleAskDownPayment(message, state)
      [] state.step = "ASK_FINANCING_TERM" -> handleAskFinancingTerm(message, state)
      [] state.step = "GENERATE_QUOTE"     -> Result(state, FALSE, "quote")
      [] OTHER                             -> startQuoteFlow(message)

(***************************************************************************)
(* Bounds                                                                  *)
(***************************************************************************)
\* a turn is received only while the user has fewer than MaxQuotes quotes ...
MaxQuotes == 1

\* ... and has started at most MaxFlows quote flows
MaxFlows == 1

(***************************************************************************)
(* State                                                                   *)
(***************************************************************************)
VARIABLES
    session,    \* session table: user -> stored state, NoRow when there is no row
    quotes,     \* quote table: user -> the Quote rows created for the user, oldest first
    turn,       \* per request in progress: where handleMessagingEvent stands and its locals
    apiKey,     \* process.env.OPENAI_API_KEY is set
    flows,      \* history: user -> number of startQuoteFlow calls made for the user
    lastWrite,  \* history: user -> the state handed to the latest session write, NoRow for a delete
    walk,       \* history: user -> progress along the variant -> cash dialogue
    probe       \* a call of a service method made on its own: its arguments and its result

vars == <<session, quotes, turn, apiKey, flows, lastWrite, walk, probe, carIndex>>

\* no service method is called on its own
NoProbe == [fn |-> "none"]

\* a request slot with no request in it. pre, q0, script, hint, started, llm,
\* intent, overlapped, ops, wrote and sent record what the turn saw and did.
IdleTurn ==
    [pc |-> "idle", user |-> "", kind |-> "", content |-> << >>,
     state |-> IdleState, reply |-> "", calc |-> NoCalculation,
     pre |-> NoRow, q0 |-> 0, script |-> 0, hint |-> << >>, started |-> FALSE,
     llm |-> "", intent |-> "", overlapped |-> FALSE, ops |-> << >>, wrote |-> << >>, sent |-> << >>]

\* not on the variant -> cash dialogue
NoWalk == [stage |-> 0, steps |-> << >>, q0 |-> 0]

Init ==
    /\ session = [u \in Users |-> NoRow]
    /\ quotes = [u \in Users |-> << >>]
    /\ turn = [t \in Turns |-> IdleTurn]
    /\ apiKey \in BOOLEAN
    /\ flows = [u \in Users |-> 0]
    /\ lastWrite = [u \in Users |-> NoRow]
    /\ walk = [u \in Users |-> NoWalk]
    /\ probe = NoProbe
    /\ carIndex = VariantFound

\* the turn moves to pc with some locals changed; op is the operation it performed
Goto(t, pc, op, changes) ==
    turn' = [turn EXCEPT ![t] = [changes EXCEPT !.pc = pc, !.ops = Append(turn[t].ops, op)]]

\* the turn sends its reply and returns
Reply(t, op, tag, changes) ==
    turn' = [turn EXCEPT ![t] = [changes EXCEPT !.pc = "done", !.ops = Append(turn[t].ops, op),
                                                !.sent = Append(turn[t].sent, tag)]]

\* the turn returns without sending anything
Return(t, op, changes) == Goto(t, "done", op, changes)

\* the step of a stored row, IDLE when there is none
StepOf(row) == getSession(row).step

\* the locals of turn t after it has set the session of its user to row
Wrote(t, row) == [turn[t] EXCEPT !.wrote = Append(@, StepOf(row))]

\* walk after the session of the user has been set to row
Stepped(w, row) == IF w.stage = 0 THEN w ELSE [w EXCEPT !.steps = Append(@, StepOf(row))]

\* walk after turn t is over
Completed(w, t) == IF turn[t].script = 0 THEN w ELSE [w EXCEPT !.stage = turn[t].script]

\* the stage of the variant -> cash dialogue that event ev is, 0 if it is not the next one:
\* 2 is a resolvable variant name (not a cancellation) sent at stage 1,
\* 3 a cash keyword or payload sent at stage 2
scriptTurn(w, ev) ==
    IF ev.kind = "postback" THEN 0
    ELSE IF /\ w.stage = 1
            /\ carIndex[ev.content] # NoVariant
            /\ trim(toLowerCase(ev.content)) \notin {<<"c","a","n","c","e","l">>, <<"s","t","o","p">>, <<"e","x","i","t">>}
    THEN 2
    ELSE IF w.stage = 2 /\ listIncludes(CASH_WORDS, toLowerCase(ev.content)) THEN 3
    ELSE 0

(***************************************************************************)
(* handleMessagingEvent (webhook.routes.ts)                                *)
(***************************************************************************)
\* a webhook request with one messaging event arrives
Receive(t, u, ev) ==
    /\ turn[t].pc = "idle"
    /\ Len(quotes[u]) < MaxQuotes
    /\ flows[u] <= MaxFlows
    /\ LET busy == {o \in Turns : turn[o].user = u /\ turn[o].pc \notin {"idle", "done"}}
       IN  turn' = [o \in Turns |->
                     IF o = t
                     THEN [IdleTurn EXCEPT
                            !.pc = CASE ev.kind = "text" -> "checkContentSafety"
                                     [] ev.kind = "postback" -> "handlePostback"
                                     [] OTHER -> "handleQuickReply",
                            !.user = u, !.kind = ev.kind, !.content = ev.content,
                            !.pre = session[u], !.q0 = Len(quotes[u]),
                            !.script = scriptTurn(walk[u], ev), !.overlapped = busy # {}]
                     ELSE IF o \in busy THEN [turn[o] EXCEPT !.overlapped = TRUE]
                     ELSE turn[o]]
    /\ walk' = [walk EXCEPT ![u] = IF scriptTurn(walk[u], ev) = 0 THEN NoWalk ELSE @]
    /\ UNCHANGED <<session, quotes, apiKey, probe, carIndex, flows, lastWrite>>

\* the transport delivers the turns of one user one after the other
ReceiveInOrder(t, u, ev) ==
    /\ \A o \in Turns : turn[o].pc = "idle" \/ turn[o].user # u
    /\ Receive(t, u, ev)

\* two requests of one user overlap
ReceiveOverlapping(t, u, ev) ==
    /\ ev \in OverlapEvents
    /\ Receive(t, u, ev)

\* text branch, lines 113-118
CheckContentSafety(t) ==
    /\ turn[t].pc = "checkContentSafety"
    /\ IF checkContentSafety(turn[t].content)
       THEN /\ Goto(t, "isInQuoteFlow", "checkContentSafety", turn[t])
            /\ UNCHANGED walk
       ELSE /\ Reply(t, "checkContentSafety", "safety_message", turn[t])
            /\ walk' = [walk EXCEPT ![turn[t].user] = Completed(@, t)]
    /\ UNCHANGED <<session, quotes, apiKey, probe, carIndex, flows, lastWrite>>

QUOTE_FLOW_BYPASS == << <<"h","i">>, <<"h","e","l","l","o">>, <<"s","t","a","r","t">>, <<"m","o","d","e","l","s">>, <<"c","a","r","s">> >>

\* text branch, lines 120-122
IsInQuoteFlow(t) ==
    /\ turn[t].pc = "isInQuoteFlow"
    /\ IF /\ isInQuoteFlow(session[sessionKey(turn[t].user)])
          /\ ~listIncludes(QUOTE_FLOW_BYPASS, toLowerCase(turn[t].content))
       THEN Goto(t, "processMessage", "isInQuoteFlow", turn[t])
       ELSE Goto(t, "detectIntent", "isInQuoteFlow", turn[t])
    /\ UNCHANGED <<session, quotes, apiKey, probe, carIndex, flows, lastWrite, walk>>

\* what the turn does with the result r of a quote-flow handler
Continue(t, op, r, changes) ==
    IF r.persist
    THEN /\ Goto(t, "updateSession", op, [changes EXCEPT !.state = r.state, !.reply = r.reply])
         /\ UNCHANGED walk
    ELSE IF r.state.step = "GENERATE_QUOTE"
    THEN /\ Goto(t, "calculatePrice", op, [changes EXCEPT !.state = r.state, !.reply = r.reply])
         /\ UNCHANGED walk
    ELSE /\ Reply(t, op, r.reply, [changes EXCEPT !.state = r.state])
         /\ walk' = [walk EXCEPT ![turn[t].user] = Completed(@, t)]

\* a call of startQuoteFlow(senderId, variantQuery) by turn t, up to its updateSession
StartQuoteFlow(t, op, variantQuery, changes) ==
    /\ Goto(t, "updateSession", op,
            [changes EXCEPT !.state = startQuoteFlow(variantQuery).state,
                            !.reply = startQuoteFlow(variantQuery).reply,
                            !.hint = variantQuery, !.started = TRUE])
    /\ flows' = [flows EXCEPT ![turn[t].user] = @ + 1]
    /\ walk' = [walk EXCEPT ![turn[t].user] =
                    IF /\ session[sessionKey(turn[t].user)] = NoRow
                       /\ (variantQuery = << >> \/ carIndex[variantQuery] = NoVariant)
                    THEN [stage |-> 1, steps |-> <<"IDLE">>, q0 |-> Len(quotes[turn[t].user])]
                    ELSE NoWalk]

\* QuoteFlowService.processMessage up to its first write
ProcessMessage(t) ==
    /\ turn[t].pc = "processMessage"
    /\ LET state == getSession(session[sessionKey(turn[t].user)])
       IN  IF isCancel(turn[t].content)
           THEN /\ Goto(t, "clearSession", "processMessage",
                        [turn[t] EXCEPT !.state = IdleState, !.reply = "cancelled"])
                /\ UNCHANGED <<flows, walk>>
           ELSE IF state.step \in {"IDLE", "CONFIRM_DETAILS"}
           THEN StartQuoteFlow(t, "processMessage", turn[t].content, turn[t])
           ELSE /\ Continue(t, "processMessage", dispatch(turn[t].content, state), turn[t])
                /\ UNCHANGED flows
    /\ UNCHANGED <<session, quotes, apiKey, probe, carIndex, lastWrite>>

\* an update that sets the step and keeps the context of an existing row
updateSessionStepOnly(row, state) == IF row = NoRow THEN state ELSE [step |-> state.step, context |-> row.context]

\* prisma.session.upsert: the row of the user after updateSession(userId, state)
updateSession(row, state) == state

\* QuoteFlowService.updateSession, and what its caller does until the next await
UpdateSession(t) ==
    /\ turn[t].pc = "updateSession"
    /\ session' = [session EXCEPT ![sessionKey(turn[t].user)] = updateSession(@, turn[t].state)]
    /\ lastWrite' = [lastWrite EXCEPT ![turn[t].user] = turn[t].state]
    /\ IF turn[t].state.step = "GENERATE_QUOTE"
       THEN /\ Goto(t, "calculatePrice", "updateSession", Wrote(t, session'[sessionKey(turn[t].user)]))
            /\ walk' = [walk EXCEPT ![turn[t].user] = Stepped(@, session'[sessionKey(turn[t].user)])]
       ELSE /\ Reply(t, "updateSession", turn[t].reply, Wrote(t, session'[sessionKey(turn[t].user)]))
            /\ walk' = [walk EXCEPT ![turn[t].user] = Completed(Stepped(@, session'[sessionKey(turn[t].user)]), t)]
    /\ UNCHANGED <<quotes, apiKey, probe, carIndex, flows>>

\* QuoteFlowService.generateQuote up to prisma.quote.create
CalculatePrice(t) ==
    /\ turn[t].pc = "calculatePrice"
    /\ IF falsy(turn[t].state.context.variantId)
       THEN /\ Reply(t, "generateQuote", "no_variant_selected", turn[t])
            /\ walk' = [walk EXCEPT ![turn[t].user] = Completed(@, t)]
       ELSE LET calculation == calculatePrice(pricingInput(turn[t].state))
            IN  IF ~calculation.found
                THEN /\ Reply(t, "calculatePrice", "quote_unavailable", turn[t])
                     /\ walk' = [walk EXCEPT ![turn[t].user] = Completed(@, t)]
                ELSE /\ Goto(t, "quoteCreate", "calculatePrice", [turn[t] EXCEPT !.calc = calculation])
                     /\ UNCHANGED walk
    /\ UNCHANGED <<session, quotes, apiKey, probe, carIndex, flows, lastWrite>>

\* generateQuote: prisma.quote.create
QuoteCreate(t) ==
    /\ turn[t].pc = "quoteCreate"
    /\ quotes' = [quotes EXCEPT ![turn[t].user] =
                    Append(@, [userId |-> turn[t].user, variantId |-> turn[t].state.context.variantId,
                               details |-> turn[t].calc, status |-> "GENERATED"])]
    /\ Goto(t, "clearSession", "quoteCreate", [turn[t] EXCEPT !.calc = NoCalculation])
    /\ UNCHANGED <<session, apiKey, probe, carIndex, flows, lastWrite, walk>>

\* prisma.session.delete: the row of the user after clearSession(userId)
clearSession(row) == NoRow

\* QuoteFlowService.clearSession, and the reply of its caller
ClearSession(t) ==
    /\ turn[t].pc = "clearSession"
    /\ session' = [session EXCEPT ![sessionKey(turn[t].user)] = clearSession(@)]
    /\ lastWrite' = [lastWrite EXCEPT ![turn[t].user] = NoRow]
    /\ Reply(t, "clearSession", turn[t].reply, Wrote(t, session'[sessionKey(turn[t].user)]))
    /\ walk' = [walk EXCEPT ![turn[t].user] = Completed(Stepped(@, session'[sessionKey(turn[t].user)]), t)]
    /\ UNCHANGED <<quotes, apiKey, probe, carIndex, flows>>

\* text branch, lines 132-279: classification and routing
DetectIntent(t, response) ==
    /\ turn[t].pc = "detectIntent"
    /\ apiKey \/ ~response.ok
    /\ LET d == detection(apiKey, turn[t].content, response)
           capability == route(d.intent, turn[t].content)
           unavailable == ~apiKey \/ ~response.ok
           seen == [turn[t] EXCEPT !.llm = IF unavailable THEN "unavailable" ELSE "ok", !.intent = d.intent]
       IN  IF capability = "get_quote"
           THEN StartQuoteFlow(t, "detectIntent", variantQueryOf(d.entities, turn[t].content), seen)
           ELSE /\ Reply(t, "detectIntent", answerOf(capability, d.entities, turn[t].content), seen)
                /\ walk' = [walk EXCEPT ![turn[t].user] = Completed(@, t)]
                /\ UNCHANGED flows
    /\ UNCHANGED <<session, quotes, apiKey, probe, carIndex, lastWrite>>

\* handleQuickReply
HandleQuickReply(t) ==
    /\ turn[t].pc = "handleQuickReply"
    /\ LET lowerPayload == toLowerCase(turn[t].content)
           answer(tag) == /\ Reply(t, "handleQuickReply", tag, turn[t])
                          /\ walk' = [walk EXCEPT ![turn[t].user] = Completed(@, t)]
                          /\ UNCHANGED flows
       IN  IF lowerPayload = <<"s","h","o","w","_","m","o","d","e","l","s">> THEN answer("show_models")
           ELSE IF lowerPayload = <<"g","e","t","_","q","u","o","t","e">> THEN StartQuoteFlow(t, "handleQuickReply", << >>, turn[t])
           ELSE IF lowerPayload = <<"v","i","e","w","_","p","h","o","t","o","s">> THEN answer("ask_photo_model")
           ELSE IF lowerPayload = <<"a","s","k","_","q","u","e","s","t","i","o","n","s">> THEN answer("ask_question")
           ELSE IF startsWith(lowerPayload, <<"s","e","l","e","c","t","_">>)
           THEN IF carIndex[selectedName(turn[t].content)] # NoVariant
                THEN answer("variant_card")
                ELSE /\ Return(t, "handleQuickReply", turn[t])
                     /\ walk' = [walk EXCEPT ![turn[t].user] = Completed(@, t)]
                     /\ UNCHANGED flows
           ELSE IF isInQuoteFlow(session[sessionKey(turn[t].user)])
           THEN /\ Goto(t, "processMessage", "isInQuoteFlow", turn[t])
                /\ UNCHANGED <<flows, walk>>
           ELSE /\ Reply(t, "isInQuoteFlow", "received_action", turn[t])
                /\ walk' = [walk EXCEPT ![turn[t].user] = Completed(@, t)]
                /\ UNCHANGED flows
    /\ UNCHANGED <<session, quotes, apiKey, probe, carIndex, lastWrite>>

\* handlePostback
HandlePostback(t) ==
    /\ turn[t].pc = "handlePostback"
    /\ IF startsWith(turn[t].content, <<"s","p","e","c","s","_">>)
       THEN Reply(t, "handlePostback", handleSpecsRequest(specsPostbackQuery(turn[t].content)), turn[t])
       ELSE Reply(t, "handlePostback", "action_received", turn[t])
    /\ walk' = [walk EXCEPT ![turn[t].user] = Completed(@, t)]
    /\ UNCHANGED <<session, quotes, apiKey, probe, carIndex, flows, lastWrite>>

\* prisma.quote.create rejects: the error reaches the catch of handleMessagingEvent
QuoteCreateFails(t) ==
    /\ turn[t].pc = "quoteCreate"
    /\ Reply(t, "quoteCreateFails", "something_went_wrong", [turn[t] EXCEPT !.calc = NoCalculation])
    /\ walk' = [walk EXCEPT ![turn[t].user] = Completed(@, t)]
    /\ UNCHANGED <<session, quotes, apiKey, probe, carIndex, flows, lastWrite>>

\* prisma.session.upsert rejects: the error reaches the catch of the turn handler
UpdateSessionFails(t) ==
    /\ turn[t].pc = "updateSession"
    /\ Reply(t, "updateSessionFails", "something_went_wrong", turn[t])
    /\ walk' = [walk EXCEPT ![turn[t].user] = Completed(@, t)]
    /\ UNCHANGED <<session, quotes, apiKey, probe, carIndex, flows, lastWrite>>

\* prisma.session.delete rejects: clearSession swallows the error and its caller replies as usual
ClearSessionFails(t) ==
    /\ turn[t].pc = "clearSession"
    /\ Reply(t, "clearSessionFails", turn[t].reply, turn[t])
    /\ walk' = [walk EXCEPT ![turn[t].user] = Completed(@, t)]
    /\ UNCHANGED <<session, quotes, apiKey, probe, carIndex, flows, lastWrite>>

\* the request is over
Finish(t) ==
    /\ turn[t].pc = "done"
    /\ turn' = [turn EXCEPT ![t] = IdleTurn]
    /\ UNCHANGED <<session, quotes, apiKey, probe, carIndex, flows, lastWrite, walk>>

HandleText(t) ==
    \/ CheckContentSafety(t)
    \/ IsInQuoteFlow(t)
    \/ ProcessMessage(t)
    \/ UpdateSession(t)
    \/ CalculatePrice(t)
    \/ QuoteCreate(t)
    \/ ClearSession(t)
    \/ \E response \in LLMResponses : DetectIntent(t, response)
    \/ Finish(t)

Handle(t) ==
    \/ HandleText(t)
    \/ HandleQuickReply(t)
    \/ HandlePostback(t)

\* turns of a user arrive one after the other, every store call succeeds
Next ==
    \E t \in Turns :
        \/ \E u \in Users, ev \in Events : ReceiveInOrder(t, u, ev)
        \/ Handle(t)

Spec == Init /\ [][Next]_vars

\* as Spec, and a Quote insert may fail
NextFail ==
    \E t \in Turns :
        \/ \E u \in Users, ev \in Events : ReceiveInOrder(t, u, ev)
        \/ Handle(t)
        \/ QuoteCreateFails(t)

SpecFail == Init /\ [][NextFail]_vars

\* two text turns of one user may overlap
NextOverlap ==
    \E t \in Turns :
        \/ \E u \in Users, ev \in Events : ReceiveOverlapping(t, u, ev)
        \/ HandleText(t)

SpecOverlap == Init /\ [][NextOverlap]_vars

\* as Spec, and every write to the store may fail
NextWriteFail ==
    \E t \in Turns :
        \/ \E u \in Users, ev \in Events : ReceiveInOrder(t, u, ev)
        \/ Handle(t)
        \/ UpdateSessionFails(t)
        \/ ClearSessionFails(t)
        \/ QuoteCreateFails(t)

SpecWriteFail == Init /\ [][NextWriteFail]_vars

\* two users, each served one turn at a time
TwoUsers == {"u1", "u2"}

InitUsers ==
    /\ session = [u \in TwoUsers |-> NoRow]
    /\ quotes = [u \in TwoUsers |-> << >>]
    /\ turn = [t \in Turns |-> IdleTurn]
    /\ apiKey \in BOOLEAN
    /\ flows = [u \in TwoUsers |-> 0]
    /\ lastWrite = [u \in TwoUsers |-> NoRow]
    /\ walk = [u \in TwoUsers |-> NoWalk]
    /\ probe = NoProbe
    /\ carIndex = VariantFound

\* text turns of the two users interleave at their awaits
NextUsers ==
    \E t \in Turns :
        \/ \E u \in TwoUsers, ev \in OverlapEvents : ReceiveInOrder(t, u, ev)
        \/ HandleText(t)

SpecUsers == InitUsers /\ [][NextUsers]_vars

(***************************************************************************)
(* The Pricing Calculator called on its own                                *)
(***************************************************************************)
\* a rule of NCR that carries the three standard fees, and one without an insurance fee
InsuredRule == [region |-> "NCR", registration |-> 5000, chattel |-> 15000, insurance |-> 30000,
                others |-> Undef, discount |-> Undef]

PlainRule == [region |-> "NCR", registration |-> 5000, chattel |-> 15000, insurance |-> Undef,
              others |-> Undef, discount |-> Undef]

\* the priceRule tables the calculator is called with
RuleTables == { PriceRules, << >>, <<InsuredRule>>, <<PlainRule>> }

\* PricingInput: the arguments the calculator is called with; 99 is the id of no variant
PricingInputs ==
    [variantId : VariantIds \cup {99},
     region : {"NCR", "CEBU"},
     addons : { << >>, <<15000, 8000>> },
     downPaymentPercent : {Undef, 0, 15, 20},
     financingMonths : {Undef, 0, 60},
     interestRate : {Undef, 70}]

InitPricing ==
    /\ session = [u \in Users |-> NoRow]
    /\ quotes = [u \in Users |-> << >>]
    /\ turn = [t \in Turns |-> IdleTurn]
    /\ apiKey = FALSE
    /\ flows = [u \in Users |-> 0]
    /\ lastWrite = [u \in Users |-> NoRow]
    /\ walk = [u \in Users |-> NoWalk]
    /\ carIndex = VariantFound
    /\ probe \in [fn : {"calculatePrice"}, rules : RuleTables, input : PricingInputs,
                   done : {FALSE}, out : {NoCalculation}]

\* pricingService.calculatePrice(input)
CallCalculatePrice ==
    /\ probe.fn = "calculatePrice"
    /\ ~probe.done
    /\ probe' = [probe EXCEPT !.done = TRUE, !.out = calculatePriceWith(probe.rules, probe.input)]
    /\ UNCHANGED <<session, quotes, turn, apiKey, flows, lastWrite, walk, carIndex>>

NextPricing == CallCalculatePrice

SpecPricing == InitPricing /\ [][NextPricing]_vars

(***************************************************************************)
(* The Catalog Resolver called on its own                                  *)
(***************************************************************************)
\* the orders in which the carVariant table can return the seeded rows
StorageOrders == {o \in [1..Len(CarVariants) -> 1..Len(CarVariants)] :
                    \A i, j \in 1..Len(CarVariants) : o[i] = o[j] => i = j}

\* the seeded catalog in every storage order of its variants
Catalogs == {[models |-> CarModels, variants |-> [i \in 1..Len(CarVariants) |-> CarVariants[o[i]]]] :
                o \in StorageOrders}

\* the queries the resolver is called with
ResolverQueries == {
    <<"x","p","a","n","d","e","r">>, <<"x","p","a","n","d","e","r"," ","z","z","z">>, <<"x","p","a","n","d","e","r"," ","g","l","s">>, <<"z","z","z">>, <<"g","l","s">>, <<"x","p","a","n","d","r">>,
    <<"m","o","n","t","e","r","o"," ","b","l","a","c","k">>, <<"b","l","a","c","k"," ","s","e","r","i","e","s">>, <<"q","q","q"," ","w","w","w">>, <<"g","l","x">> }

InitResolver ==
    /\ session = [u \in Users |-> NoRow]
    /\ quotes = [u \in Users |-> << >>]
    /\ turn = [t \in Turns |-> IdleTurn]
    /\ apiKey = FALSE
    /\ flows = [u \in Users |-> 0]
    /\ lastWrite = [u \in Users |-> NoRow]
    /\ walk = [u \in Users |-> NoWalk]
    /\ carIndex = VariantFound
    /\ probe \in [fn : {"searchVariantByName"}, catalog : Catalogs, query : ResolverQueries,
                   done : {FALSE}, out : {NoVariant}]

\* catalogService.searchVariantByName(query)
CallSearchVariantByName ==
    /\ probe.fn = "searchVariantByName"
    /\ ~probe.done
    /\ probe' = [probe EXCEPT !.done = TRUE, !.out = searchVariantByNameIn(probe.catalog, probe.query)]
    /\ UNCHANGED <<session, quotes, turn, apiKey, flows, lastWrite, walk, carIndex>>

NextResolver == CallSearchVariantByName

SpecResolver == InitResolver /\ [][NextResolver]_vars

(***************************************************************************)
(* The guardrails called on their own                                      *)
(***************************************************************************)
\* 1000 * 60 * 60 * 24 milliseconds, with the clock read in hours
HOURS_PER_DAY == 24

\* a price older than this many days carries the warning
STALE_AFTER_DAYS == 30

\* Math.floor((Date.now() - lastUpdated.getTime()) / (1000 * 60 * 60 * 24))
daysSinceUpdateCeil(ageHours) == (ageHours + HOURS_PER_DAY - 1) \div HOURS_PER_DAY

daysSinceUpdate(ageHours) == ageHours \div HOURS_PER_DAY

\* /(how much|price range|expensive|cheap)/i.test(message)
GENERAL_PRICE_WORDS == << <<"h","o","w"," ","m","u","c","h">>, <<"p","r","i","c","e"," ","r","a","n","g","e">>, <<"e","x","p","e","n","s","i","v","e">>, <<"c","h","e","a","p">> >>

\* the result of a guardrail that found no variant to talk about
NoGuardrailData == [variant |-> NoVariant, suggestion |-> TRUE, warning |-> FALSE, isGeneral |-> FALSE]

\* GuardrailsService.checkPricingQuestion; ageHours is Date.now() - variant.updatedAt
checkPricingQuestion(message, ageHours) ==
    LET variant == searchVariantByName(message)
    IN  IF variant = NoVariant
        THEN [allowed |-> FALSE, data |-> NoGuardrailData]
        ELSE IF daysSinceUpdate(ageHours) > STALE_AFTER_DAYS
        THEN [allowed |-> TRUE,
              data |-> [variant |-> variant, suggestion |-> FALSE, warning |-> TRUE, isGeneral |-> FALSE]]
        ELSE [allowed |-> TRUE,
              data |-> [variant |-> variant, suggestion |-> FALSE, warning |-> FALSE,
                        isGeneral |-> /\ someIncluded(toLowerCase(message), GENERAL_PRICE_WORDS)
                                      /\ ~includes(message, ModelById(VariantById(variant).modelId).name)
                                      /\ ~includes(message, VariantById(variant).name)]]

\* .slice(0, 500)
MAX_INPUT == 500

\* GuardrailsService.sanitizeInput
sanitizeInput(input) ==
    take(regexReplaceAll(SelectSeq(input, LAMBDA c : c \notin {"<", ">"}), <<"j","a","v","a","s","c","r","i","p","t",":">>, << >>, FALSE),
         MAX_INPUT)

\* Allow up to 5% variance
MAX_VARIANCE_PERCENT == 5

\* percentDiff.toFixed(2), in hundredths of a percent
percentDifference(difference, srp) == (difference * 10000 + srp \div 2) \div srp

\* GuardrailsService.validatePrice; a field the result does not carry is Undef
validatePrice(variantId, claimedPrice) ==
    IF variantId \notin VariantIds
    THEN [allowed |-> FALSE, officialPrice |-> Undef, claimedPrice |-> Undef, difference |-> Undef,
          percentDifference |-> Undef, isAccurate |-> Undef]
    ELSE LET srp        == VariantById(variantId).srp
             difference == IF claimedPrice >= srp THEN claimedPrice - srp ELSE srp - claimedPrice
         IN  IF difference * 100 <= MAX_VARIANCE_PERCENT * srp
             THEN [allowed |-> TRUE, officialPrice |-> srp, claimedPrice |-> claimedPrice,
                   difference |-> difference, percentDifference |-> Undef, isAccurate |-> TRUE]
             ELSE [allowed |-> FALSE, officialPrice |-> srp, claimedPrice |-> claimedPrice,
                   difference |-> difference, percentDifference |-> percentDifference(difference, srp),
                   isAccurate |-> FALSE]

\* the messages the pricing guardrail is asked about
PricingMessages == {
    <<"x","p","a","n","d","e","r"," ","g","l","s">>, <<"X","p","a","n","d","e","r"," ","G","L","S"," ","A","/","T">>, <<"h","o","w"," ","m","u","c","h"," ","x","p","a","n","d","e","r">>, <<"m","o","n","t","e","r","o"," ","b","l","a","c","k">>,
    <<"z","z","z">>, <<"h","o","w"," ","m","u","c","h"," ","i","s"," ","i","t">>, <<"g","l","x">>, <<"c","h","e","a","p"," ","c","a","r","s">> }

\* Date.now() - variant.updatedAt in hours: fresh, 29 days, 30 days, between
\* 30 and 31 days, 31 days, 45 days
PriceAges == {0, 29 * HOURS_PER_DAY, 30 * HOURS_PER_DAY, 30 * HOURS_PER_DAY + 1, 30 * HOURS_PER_DAY + 12,
              31 * HOURS_PER_DAY - 1, 31 * HOURS_PER_DAY, 45 * HOURS_PER_DAY}

PricingQuestionProbes ==
    [fn : {"checkPricingQuestion"}, message : PricingMessages, ageHours : PriceAges,
     done : {FALSE}, out : {[allowed |-> FALSE, data |-> NoGuardrailData]}]

\* a string of n characters c
repeatChar(c, n) == [i \in 1..n |-> c]

\* the strings handed to the sanitation
SanitizeInputs == {
    << >>, <<"h","e","l","l","o">>, <<"<","b",">","h","i","<","/","b",">">>, <<"a"," ","<"," ","b"," ",">"," ","c">>, <<"j","a","v","a","s","c","r","i","p","t",":","a","l","e","r","t","(","1",")">>, <<"J","a","v","a","S","c","r","i","p","t",":","a","l","e","r","t","(","1",")">>,
    <<"j","a","v","a","<","s","c","r","i","p","t",":","x">>, <<"j","a","v","a","j","a","v","a","s","c","r","i","p","t",":","s","c","r","i","p","t",":","a","l","e","r","t","(","1",")">>, <<"J","A","V","A","j","a","v","a","s","c","r","i","p","t",":","S","C","R","I","P","T",":","x">>,
    <<"s","e","e"," ","j","a","v","a","s","c","r","i","p","t",":"," ","a","n","d"," ","J","A","V","A","S","C","R","I","P","T",":">>, <<"<","<",">",">">>, <<"j","a","v","a"," ","s","c","r","i","p","t",":">>,
    repeatChar("a", MAX_INPUT), repeatChar("a", MAX_INPUT + 1),
    repeatChar("a", MAX_INPUT - 1) \o <<"<","b",">">>, repeatChar("a", MAX_INPUT - 4) \o <<"j","a","v","a","s","c","r","i","p","t",":","x">> }

SanitizeProbes == [fn : {"sanitizeInput"}, input : SanitizeInputs, done : {FALSE}, out : {<< >>}]

\* a variant id that no row carries
MissingVariantId == 99

\* the prices claimed for a variant: its price, 5% and 10% above and below it,
\* and one peso to either side of each
ClaimedPricesFor(variantId) ==
    IF variantId \notin VariantIds THEN {1068000}
    ELSE {VariantById(variantId).srp + (VariantById(variantId).srp * k) \div 100 + e :
            k \in {-10, -5, 0, 5, 10}, e \in {-1, 0, 1}}

ValidatePriceProbes ==
    UNION {{[fn |-> "validatePrice", variantId |-> v, claimedPrice |-> c, done |-> FALSE,
             out |-> [allowed |-> FALSE]] : c \in ClaimedPricesFor(v)} :
                v \in VariantIds \cup {MissingVariantId}}

InitGuardrails ==
    /\ session = [u \in Users |-> NoRow]
    /\ quotes = [u \in Users |-> << >>]
    /\ turn = [t \in Turns |-> IdleTurn]
    /\ apiKey = FALSE
    /\ flows = [u \in Users |-> 0]
    /\ lastWrite = [u \in Users |-> NoRow]
    /\ walk = [u \in Users |-> NoWalk]
    /\ carIndex = VariantFound
    /\ probe \in PricingQuestionProbes \cup SanitizeProbes \cup ValidatePriceProbes

\* guardrailsService.checkPricingQuestion(message)
CallCheckPricingQuestion ==
    /\ probe.fn = "checkPricingQuestion"
    /\ ~probe.done
    /\ probe' = [probe EXCEPT !.done = TRUE, !.out = checkPricingQuestion(probe.message, probe.ageHours)]
    /\ UNCHANGED <<session, quotes, turn, apiKey, flows, lastWrite, walk, carIndex>>

\* guardrailsService.sanitizeInput(input)
CallSanitizeInput ==
    /\ probe.fn = "sanitizeInput"
    /\ ~probe.done
    /\ probe' = [probe EXCEPT !.done = TRUE, !.out = sanitizeInput(probe.input)]
    /\ UNCHANGED <<session, quotes, turn, apiKey, flows, lastWrite, walk, carIndex>>

\* guardrailsService.validatePrice(variantId, claimedPrice)
CallValidatePrice ==
    /\ probe.fn = "validatePrice"
    /\ ~probe.done
    /\ probe' = [probe EXCEPT !.done = TRUE, !.out = validatePrice(probe.variantId, probe.claimedPrice)]
    /\ UNCHANGED <<session, quotes, turn, apiKey, flows, lastWrite, walk, carIndex>>

NextGuardrails ==
    \/ CallCheckPricingQuestion
    \/ CallValidatePrice
    \/ CallSanitizeInput

SpecGuardrails == InitGuardrails /\ [][NextGuardrails]_vars

(***************************************************************************)
(* The carousels of a photo gallery and of spec sheets                     *)
(***************************************************************************)
\* a model has at most this many photos per variant, and a variant this many spec sheets
MaxPhotos == 12

\* allMedia.slice(0, 10)
PHOTO_CARDS == 10

\* specSheets.slice(0, 3)
SHEET_CARDS == 3

\* elements.slice(0, 10) of sendCarousel
MAX_ELEMENTS == 10

\* the rows getVariantPhotos returns for a variant that has count photos
photosOf(variantName, count) == [k \in 1..count |-> [variantName |-> variantName, url |-> k]]

\* handlePhotosRequest: allMedia, the photos of the model's variants in the order of the variants
collectMedia(counts) ==
    IF Len(counts) = 0 THEN << >>
    ELSE IF Len(counts) = 1 THEN photosOf(1, counts[1])
    ELSE photosOf(1, counts[1]) \o photosOf(2, counts[2])

\* MessengerService.sendCarousel: the message handed to sendMessage
sendCarousel(elements) == [type |-> "carousel", elements |-> take(elements, MAX_ELEMENTS)]

\* handlePhotosRequest once the model is found: the messages it sends
photoGallery(counts) ==
    LET allMedia == collectMedia(counts)
    IN  IF Len(allMedia) = 0
        THEN << [type |-> "text", elements |-> << >>] >>
        ELSE << sendCarousel(take(allMedia, PHOTO_CARDS)) >>

\* handleSpecsRequest once the variant is found: the messages it sends
specsAnswer(sheets) ==
    IF sheets > 0
    THEN << [type |-> "text", elements |-> << >>],
            sendCarousel(take([k \in 1..sheets |-> [variantName |-> 1, url |-> k]], SHEET_CARDS)) >>
    ELSE << [type |-> "text", elements |-> << >>] >>

InitCarousel ==
    /\ session = [u \in Users |-> NoRow]
    /\ quotes = [u \in Users |-> << >>]
    /\ turn = [t \in Turns |-> IdleTurn]
    /\ apiKey = FALSE
    /\ flows = [u \in Users |-> 0]
    /\ lastWrite = [u \in Users |-> NoRow]
    /\ walk = [u \in Users |-> NoWalk]
    /\ carIndex = VariantFound
    /\ \/ probe \in [fn : {"handlePhotosRequest"}, counts : [1..2 -> 0..MaxPhotos],
                     done : {FALSE}, out : {<< >>}]
       \/ probe \in [fn : {"handleSpecsRequest"}, sheets : 0..MaxPhotos,
                     done : {FALSE}, out : {<< >>}]

\* handlePhotosRequest(senderId, query, messenger, fastify) for a model that is found
CallHandlePhotosRequest ==
    /\ probe.fn = "handlePhotosRequest"
    /\ ~probe.done
    /\ probe' = [probe EXCEPT !.done = TRUE, !.out = photoGallery(probe.counts)]
    /\ UNCHANGED <<session, quotes, turn, apiKey, flows, lastWrite, walk, carIndex>>

\* handleSpecsRequest(senderId, query, messenger, fastify) for a variant that is found
CallHandleSpecsRequest ==
    /\ probe.fn = "handleSpecsRequest"
    /\ ~probe.done
    /\ probe' = [probe EXCEPT !.done = TRUE, !.out = specsAnswer(probe.sheets)]
    /\ UNCHANGED <<session, quotes, turn, apiKey, flows, lastWrite, walk, carIndex>>

NextCarousel ==
    \/ CallHandlePhotosRequest
    \/ CallHandleSpecsRequest

SpecCarousel == InitCarousel /\ [][NextCarousel]_vars

(***************************************************************************)
(* The knowledge search called on its own                                  *)
(***************************************************************************)
\* fAQ rows: four of the seeded entries, with their answers cut short
Faqs == <<
    [id |-> 1, question |-> <<"W","h","a","t"," ","i","s"," ","t","h","e"," ","w","a","r","r","a","n","t","y"," ","f","o","r"," ","M","i","t","s","u","b","i","s","h","i"," ","v","e","h","i","c","l","e","s","?">>,
     answer |-> <<"A","l","l"," ","n","e","w"," ","M","i","t","s","u","b","i","s","h","i"," ","v","e","h","i","c","l","e","s"," ","c","o","m","e"," ","w","i","t","h"," ","a"," ","3","-","y","e","a","r"," ","w","a","r","r","a","n","t","y",".">>,
     keywords |-> << <<"w","a","r","r","a","n","t","y">>, <<"g","u","a","r","a","n","t","e","e">>, <<"c","o","v","e","r","a","g","e">>, <<"3"," ","y","e","a","r","s">> >>],
    [id |-> 2, question |-> <<"D","o"," ","y","o","u"," ","o","f","f","e","r"," ","t","e","s","t"," ","d","r","i","v","e","s","?">>,
     answer |-> <<"Y","e","s","!"," ","W","e"," ","o","f","f","e","r"," ","t","e","s","t"," ","d","r","i","v","e","s"," ","f","o","r"," ","a","l","l"," ","o","u","r"," ","m","o","d","e","l","s",".">>,
     keywords |-> << <<"t","e","s","t"," ","d","r","i","v","e">>, <<"t","r","y">>, <<"d","r","i","v","e">>, <<"b","o","o","k">> >>],
    [id |-> 3, question |-> <<"W","h","a","t"," ","f","i","n","a","n","c","i","n","g"," ","o","p","t","i","o","n","s"," ","a","r","e"," ","a","v","a","i","l","a","b","l","e","?">>,
     answer |-> <<"W","e"," ","p","a","r","t","n","e","r"," ","w","i","t","h"," ","m","a","j","o","r"," ","b","a","n","k","s"," ","t","o"," ","o","f","f","e","r"," ","f","l","e","x","i","b","l","e"," ","f","i","n","a","n","c","i","n","g",".">>,
     keywords |-> << <<"f","i","n","a","n","c","i","n","g">>, <<"b","a","n","k">>, <<"l","o","a","n">>, <<"p","a","y","m","e","n","t">> >>],
    [id |-> 4, question |-> <<"W","h","a","t"," ","a","r","e"," ","t","h","e"," ","r","e","q","u","i","r","e","m","e","n","t","s"," ","f","o","r"," ","c","a","r"," ","f","i","n","a","n","c","i","n","g","?">>,
     answer |-> <<"S","t","a","n","d","a","r","d"," ","r","e","q","u","i","r","e","m","e","n","t","s"," ","i","n","c","l","u","d","e",":"," ","V","a","l","i","d"," ","I","D"," ","a","n","d"," ","T","I","N",".">>,
     keywords |-> << <<"r","e","q","u","i","r","e","m","e","n","t","s">>, <<"d","o","c","u","m","e","n","t","s">>, <<"f","i","n","a","n","c","i","n","g">>, <<"l","o","a","n"," ","r","e","q","u","i","r","e","m","e","n","t","s">> >>] >>

\* the fAQ table as findMany returns it: in the order above, or in the opposite order
FaqStores == {Faqs, [i \in 1..Len(Faqs) |-> Faqs[Len(Faqs) + 1 - i]]}

\* the weights of a match, in halves of a point: score += 3, 2, 1.5, 0.5
EXACT_KEYWORD == 6

PARTIAL_KEYWORD == 4

IN_QUESTION == 3

IN_ANSWER == 1

\* query.toLowerCase().split(/\s+/): the pieces between runs of whitespace,
\* with an empty piece before a leading and after a trailing run
queryWords(query) == splitOnSpace(collapseSpaces(toLowerCase(query)))

\* what one word of the query adds to the score of an entry
wordScore(faq, word) ==
    (IF \E k \in 1..Len(faq.keywords) : toLowerCase(faq.keywords[k]) = word THEN EXACT_KEYWORD
     ELSE IF \E k \in 1..Len(faq.keywords) : includes(toLowerCase(faq.keywords[k]), word) THEN PARTIAL_KEYWORD
     ELSE 0)
    + (IF includes(toLowerCase(faq.question), word) THEN IN_QUESTION ELSE 0)
    + (IF includes(toLowerCase(faq.answer), word) THEN IN_ANSWER ELSE 0)

\* for (const word of queryWords) { ... }: the score of an entry from word n on
RECURSIVE faqScore(_, _, _)
faqScore(faq, words, n) ==
    IF n > Len(words) THEN 0 ELSE wordScore(faq, words[n]) + faqScore(faq, words, n + 1)

\* .filter(item => item.score > 0).sort((a, b) => b.score - a.score): stable,
\* highest score first. The element at position p has p - 1 elements before it.
rankFaqs(store, words) ==
    LET kept         == SelectSeq(store, LAMBDA f : faqScore(f, words, 1) > 0)
        before(j, i) == \/ faqScore(kept[j], words, 1) > faqScore(kept[i], words, 1)
                        \/ (faqScore(kept[j], words, 1) = faqScore(kept[i], words, 1) /\ j < i)
        rank(i)      == Cardinality({j \in 1..Len(kept) : before(j, i)}) + 1
    IN  [p \in 1..Len(kept) |-> kept[CHOOSE i \in 1..Len(kept) : rank(i) = p].id] \o << >>

\* RAGService.searchRelevantFAQs: the ids of the entries returned, in order
searchRelevantFAQs(store, query, limit) == take(rankFaqs(store, queryWords(query)), limit)

\* the queries the knowledge search is called with
FaqQueries == {
    <<"w","a","r","r","a","n","t","y">>, <<"l","o","a","n">>, <<"f","i","n","a","n","c","i","n","g"," ","b","a","n","k">>, <<"z","z","z">>, <<"z","z","z"," ">>, <<"T","e","s","t"," "," ","d","r","i","v","e">>, << >>,
    <<"b","o","o","k"," ","w","a","r","r","a","n","t","y">>, <<"c","a","r">>, <<" ","r","e","q","u","i","r","e","m","e","n","t","s">> }

\* the limits it is called with
FaqLimits == 1..3

InitRag ==
    /\ session = [u \in Users |-> NoRow]
    /\ quotes = [u \in Users |-> << >>]
    /\ turn = [t \in Turns |-> IdleTurn]
    /\ apiKey = FALSE
    /\ flows = [u \in Users |-> 0]
    /\ lastWrite = [u \in Users |-> NoRow]
    /\ walk = [u \in Users |-> NoWalk]
    /\ carIndex = VariantFound
    /\ probe \in [fn : {"searchRelevantFAQs"}, store : FaqStores, query : FaqQueries, limit : FaqLimits,
                   done : {FALSE}, out : {<< >>}]

\* ragService.searchRelevantFAQs(query, limit)
CallSearchRelevantFAQs ==
    /\ probe.fn = "searchRelevantFAQs"
    /\ ~probe.done
    /\ probe' = [probe EXCEPT !.done = TRUE, !.out = searchRelevantFAQs(probe.store, probe.query, probe.limit)]
    /\ UNCHANGED <<session, quotes, turn, apiKey, flows, lastWrite, walk, carIndex>>

NextRag == CallSearchRelevantFAQs

SpecRag == InitRag /\ [][NextRag]_vars

(***************************************************************************)
(* The FAQ seed run on its own                                             *)
(***************************************************************************)
\* the seed is run at most this many times
MaxSeedRuns == 2

\* the columns a create writes for an entry of initialFAQs
faqData(faq) == [question |-> faq.question, answer |-> faq.answer, keywords |-> faq.keywords]

\* the next autoincrement id of the fAQ table
nextFaqId(table) == IF table = << >> THEN 1 ELSE Max({table[i].id : i \in 1..Len(table)}) + 1

\* prisma.fAQ.create({ data })
createFaq(table, faq) == Append(table, [id |-> nextFaqId(table)] @@ faqData(faq))

\* an upsert that creates a row whether or not the question is there
upsertFaqAlwaysCreates(table, faq) == createFaq(table, faq)

\* prisma.fAQ.upsert({ where: { question }, update: {}, create }): a row with
\* the question is left as it is, and a row is created when there is none
upsertFaq(table, faq) ==
    IF \E i \in 1..Len(table) : table[i].question = faq.question
    THEN table
    ELSE createFaq(table, faq)

\* an entry of initialFAQs as an operator of the dealership rewrote its answer
editedFaq(faq) == [faq EXCEPT !.answer = <<"P","l","e","a","s","e"," ","a","s","k"," ","o","u","r"," ","s","a","l","e","s"," ","t","e","a","m",".">>]

\* the fAQ tables the seed can find: of each question of initialFAQs no row,
\* the seeded row or a rewritten row
RECURSIVE FaqTablesFrom(_)
FaqTablesFrom(n) ==
    IF n = 0 THEN {<< >>}
    ELSE UNION {{t, createFaq(t, Faqs[n]), createFaq(t, editedFaq(Faqs[n]))} : t \in FaqTablesFrom(n - 1)}

InitSeed ==
    /\ session = [u \in Users |-> NoRow]
    /\ quotes = [u \in Users |-> << >>]
    /\ turn = [t \in Turns |-> IdleTurn]
    /\ apiKey = FALSE
    /\ flows = [u \in Users |-> 0]
    /\ lastWrite = [u \in Users |-> NoRow]
    /\ walk = [u \in Users |-> NoWalk]
    /\ carIndex = VariantFound
    /\ \E t \in FaqTablesFrom(Len(Faqs)) :
            probe = [fn |-> "seedInitialFAQs", table |-> t, found |-> t, first |-> << >>, next |-> 0, runs |-> 0]

\* ragService.seedInitialFAQs() is called
StartSeed ==
    /\ probe.fn = "seedInitialFAQs"
    /\ probe.next = 0
    /\ probe.runs < MaxSeedRuns
    /\ probe' = [probe EXCEPT !.next = 1]
    /\ UNCHANGED <<session, quotes, turn, apiKey, flows, lastWrite, walk, carIndex>>

\* one turn of `for (const faq of initialFAQs) await prisma.fAQ.upsert(...)`;
\* the run returns after the last entry
UpsertNextFaq ==
    /\ probe.fn = "seedInitialFAQs"
    /\ probe.next >= 1
    /\ LET table == upsertFaq(probe.table, Faqs[probe.next])
           last  == probe.next = Len(Faqs)
       IN  probe' = [probe EXCEPT !.table = table,
                                  !.next = IF last THEN 0 ELSE @ + 1,
                                  !.runs = IF last THEN @ + 1 ELSE @,
                                  !.first = IF last /\ probe.runs = 0 THEN table ELSE @]
    /\ UNCHANGED <<session, quotes, turn, apiKey, flows, lastWrite, walk, carIndex>>

NextSeed ==
    \/ StartSeed
    \/ UpsertNextFaq

SpecSeed == InitSeed /\ [][NextSeed]_vars

(***************************************************************************)
(* POST /webhook on a batch of events                                      *)
(***************************************************************************)
\* a body has at most this many entries, and an entry this many messaging events
MaxBatch == 2

\* body.entry of the requests: every entry lists events, told apart by entry and place
BatchEntries ==
    UNION {[1..n -> {[k \in 1..m |-> k] : m \in 0..MaxBatch}] : n \in 0..MaxBatch}

\* for (const entry of body.entry) for (const event of entry.messaging): the
\* events in the order the loops reach them, each as <<entry, place>>
RECURSIVE eventsFrom(_, _)
eventsFrom(entry, e) ==
    IF e > Len(entry) THEN << >>
    ELSE [k \in 1..Len(entry[e]) |-> <<e, entry[e][k]>>] \o eventsFrom(entry, e + 1)

eventsOf(entry) == eventsFrom(entry, 1)

InitBatch ==
    /\ session = [u \in Users |-> NoRow]
    /\ quotes = [u \in Users |-> << >>]
    /\ turn = [t \in Turns |-> IdleTurn]
    /\ apiKey = FALSE
    /\ flows = [u \in Users |-> 0]
    /\ lastWrite = [u \in Users |-> NoRow]
    /\ walk = [u \in Users |-> NoWalk]
    /\ carIndex = VariantFound
    /\ probe \in [fn : {"postWebhook"}, object : {"page", "user"}, entry : BatchEntries,
                   pc : {"received"}, next : {1}, log : {<< >>}, reply : {"none"}]

\* fastify.post('/webhook'): the test of body.object
PostWebhook ==
    /\ probe.fn = "postWebhook"
    /\ probe.pc = "received"
    /\ probe' = IF probe.object # "page"
                THEN [probe EXCEPT !.pc = "done", !.reply = "404 Not Found"]
                ELSE [probe EXCEPT !.pc = "loop"]
    /\ UNCHANGED <<session, quotes, turn, apiKey, flows, lastWrite, walk, carIndex>>

\* handleMessagingEvent(event) runs its try block to the end
HandleEvent ==
    /\ probe.fn = "postWebhook"
    /\ probe.pc = "loop"
    /\ probe.next <= Len(eventsOf(probe.entry))
    /\ probe' = [probe EXCEPT !.log = Append(@, [event |-> eventsOf(probe.entry)[probe.next], ended |-> "handled"]),
                              !.next = @ + 1]
    /\ UNCHANGED <<session, quotes, turn, apiKey, flows, lastWrite, walk, carIndex>>

\* a call awaited in the try block of handleMessagingEvent rejects: the catch is entered
HandleEventThrows ==
    /\ probe.fn = "postWebhook"
    /\ probe.pc = "loop"
    /\ probe.next <= Len(eventsOf(probe.entry))
    /\ probe' = [probe EXCEPT !.pc = "catch"]
    /\ UNCHANGED <<session, quotes, turn, apiKey, flows, lastWrite, walk, carIndex>>

\* the catch of handleMessagingEvent sends 'Sorry, something went wrong.'
SendErrorReply ==
    /\ probe.fn = "postWebhook"
    /\ probe.pc = "catch"
    /\ probe' = [probe EXCEPT !.log = Append(@, [event |-> eventsOf(probe.entry)[probe.next], ended |-> "error_reply"]),
                              !.next = @ + 1, !.pc = "loop"]
    /\ UNCHANGED <<session, quotes, turn, apiKey, flows, lastWrite, walk, carIndex>>

\* the send in the catch rejects: sendMessage rethrows, the error leaves
\* handleMessagingEvent, both loops and the route handler
SendErrorReplyThrows ==
    /\ probe.fn = "postWebhook"
    /\ probe.pc = "catch"
    /\ probe' = [probe EXCEPT !.log = Append(@, [event |-> eventsOf(probe.entry)[probe.next], ended |-> "thrown"]),
                              !.pc = "done", !.reply = "error"]
    /\ UNCHANGED <<session, quotes, turn, apiKey, flows, lastWrite, walk, carIndex>>

\* reply.code(200).send('EVENT_RECEIVED') after the loops
Acknowledge ==
    /\ probe.fn = "postWebhook"
    /\ probe.pc = "loop"
    /\ probe.next > Len(eventsOf(probe.entry))
    /\ probe' = [probe EXCEPT !.pc = "done", !.reply = "200 EVENT_RECEIVED"]
    /\ UNCHANGED <<session, quotes, turn, apiKey, flows, lastWrite, walk, carIndex>>

NextBatch ==
    \/ PostWebhook
    \/ HandleEvent
    \/ HandleEventThrows
    \/ SendErrorReply
    \/ SendErrorReplyThrows
    \/ Acknowledge

SpecBatch == InitBatch /\ [][NextBatch]_vars

(***************************************************************************)
(* Properties                                                              *)
(***************************************************************************)
\* a turn that is over
Done(t) == turn[t].pc = "done"

\* a turn that carries a message: a text or a quick-reply payload
Message(t) == turn[t].kind \in {"text", "quick_reply"}

\* the decimal numeral of a natural number
RECURSIVE decimal(_)
decimal(v) == IF v < 10 THEN <<DIGITS[v + 1]>> ELSE decimal(v \div 10) \o <<DIGITS[(v % 10) + 1]>>

\* a financing keyword or payload
IsFinancingChoice(c) == toLowerCase(c) \in {FINANCING_WORDS[i] : i \in 1..Len(FINANCING_WORDS)}

\* a percent in [0,100]: the numeral, the numeral with a percent sign, or the payload of a button
IsPercent(c) == \E v \in 0..100 : c \in {decimal(v), decimal(v) \o <<"%">>, <<"D","O","W","N","_","P","A","Y","M","E","N","T","_">> \o decimal(v)}

\* a term of the fixed set: the numeral, or the payload of a button
IsTerm(c) == \E v \in {12, 24, 36, 48, 60} : c \in {decimal(v), <<"T","E","R","M","_">> \o decimal(v)}

\* C1: a dialogue that starts with no session, starts the quote flow without
\* a resolvable hint, then sends a resolvable variant name, then a cash
\* keyword or payload, has taken the session through IDLE, ASK_VARIANT,
\* ASK_PAYMENT_TYPE, GENERATE_QUOTE, IDLE in that order, has created exactly
\* one Quote and has left no session.
C1_VariantCashPath ==
    \A u \in Users :
        walk[u].stage = 3 =>
            /\ walk[u].steps = <<"IDLE", "ASK_VARIANT", "ASK_PAYMENT_TYPE", "GENERATE_QUOTE", "IDLE">>
            /\ Len(quotes[u]) = walk[u].q0 + 1
            /\ session[u] = NoRow

C1_Witness == \E u \in Users : walk[u].stage = 3 /\ Len(quotes[u]) = 1

\* C2: a text or quick-reply turn whose message is cancel, stop or exit, in
\* any letter case and with surrounding whitespace, received at any stored
\* step other than IDLE, deletes the session (the user is IDLE with an empty
\* context afterwards) and creates no Quote.
C2_CancelClears ==
    \A t \in Turns :
        (/\ Done(t) /\ Message(t)
         /\ trim(toLowerCase(turn[t].content)) \in {<<"c","a","n","c","e","l">>, <<"s","t","o","p">>, <<"e","x","i","t">>}
         /\ StepOf(turn[t].pre) # "IDLE")
        => /\ session[turn[t].user] = NoRow
           /\ getSession(session[turn[t].user]) = [step |-> "IDLE", context |-> EmptyContext]
           /\ turn[t].wrote = <<"IDLE">>
           /\ Len(quotes[turn[t].user]) = turn[t].q0

C2_Witness ==
    \E t \in Turns :
        /\ Done(t) /\ turn[t].content = <<" ","C","a","n","c","e","l"," ">>
        /\ StepOf(turn[t].pre) = "GENERATE_QUOTE"
        /\ session[turn[t].user] = NoRow

\* C3: on the financing path a financing keyword or payload at
\* ASK_PAYMENT_TYPE stores ASK_DOWN_PAYMENT, a percent in [0,100] at
\* ASK_DOWN_PAYMENT stores ASK_FINANCING_TERM, a term of {12,24,36,48,60} at
\* ASK_FINANCING_TERM stores GENERATE_QUOTE, creates exactly one Quote and
\* deletes the session; and a turn of a financing dialogue creates a Quote
\* only if it was received at ASK_FINANCING_TERM and stored a term of the set.
C3_FinancingPath ==
    \A t \in Turns :
        (Done(t) /\ Message(t)) =>
            LET u   == turn[t].user
                pre == turn[t].pre
                c   == turn[t].content
            IN  /\ (pre.step = "ASK_PAYMENT_TYPE" /\ IsFinancingChoice(c))
                    => /\ session[u] = [step |-> "ASK_DOWN_PAYMENT",
                                        context |-> [pre.context EXCEPT !.paymentType = "financing"]]
                       /\ turn[t].wrote = <<"ASK_DOWN_PAYMENT">>
                       /\ Len(quotes[u]) = turn[t].q0
                /\ (pre.step = "ASK_DOWN_PAYMENT" /\ IsPercent(c))
                    => /\ session[u].step = "ASK_FINANCING_TERM"
                       /\ session[u].context.downPaymentPercent \in 0..100
                       /\ turn[t].wrote = <<"ASK_FINANCING_TERM">>
                       /\ Len(quotes[u]) = turn[t].q0
                /\ (pre.step = "ASK_FINANCING_TERM" /\ IsTerm(c))
                    => /\ session[u] = NoRow
                       /\ turn[t].wrote = <<"GENERATE_QUOTE", "IDLE">>
                       /\ Len(quotes[u]) = turn[t].q0 + 1
                /\ (pre.context.paymentType = "financing" /\ Len(quotes[u]) > turn[t].q0)
                    => /\ pre.step = "ASK_FINANCING_TERM"
                       /\ turn[t].state.context.financingMonths \in {12, 24, 36, 48, 60}

C3_Witness ==
    \E t \in Turns :
        /\ Done(t) /\ turn[t].pre.step = "ASK_FINANCING_TERM" /\ IsTerm(turn[t].content)
        /\ turn[t].pre.context.downPaymentPercent = 20
        /\ Len(quotes[turn[t].user]) = turn[t].q0 + 1

\* a plain decimal number: digits, or digits "." digits
IsNumber(c) ==
    /\ c # << >>
    /\ \A i \in 1..Len(c) : IsDigit(c[i]) \/ c[i] = "."
    /\ Cardinality({i \in 1..Len(c) : c[i] = "."}) <= 1
    /\ IsDigit(c[1]) /\ IsDigit(c[Len(c)])

\* the part of a plain decimal number before the point
Whole(c) == SelectSeq(SubSeq(c, 1, Min({i \in 1..Len(c) : c[i] = "."} \cup {Len(c) + 1}) - 1), IsDigit)

\* a plain decimal number with a part after the point that is not zero
HasFraction(c) ==
    \E i \in 1..Len(c) : c[i] = "." /\ \E j \in (i + 1)..Len(c) : c[j] # "0"

\* a plain decimal number that is equal to the natural number v
NumberIs(c, v) == IsNumber(c) /\ ~HasFraction(c) /\ digitsPrefix(Whole(c), 0) = v

\* a message that is not valid for the step:
\* an unresolvable variant string, an unrecognized payment word, a percent
\* that is not a number or is a number outside [0,100], a term that is a
\* number outside {12,24,36,48,60}
InvalidFor(step, c) ==
    CASE step = "ASK_VARIANT" -> carIndex[c] = NoVariant
      [] step = "ASK_PAYMENT_TYPE" ->
            toLowerCase(c) \notin {CASH_WORDS[i] : i \in 1..Len(CASH_WORDS)}
                                  \cup {FINANCING_WORDS[i] : i \in 1..Len(FINANCING_WORDS)}
      [] step = "ASK_DOWN_PAYMENT" ->
            \/ \A i \in 1..Len(c) : ~IsDigit(c[i])
            \/ /\ IsNumber(c)
               /\ \/ digitsPrefix(Whole(c), 0) > 100
                  \/ (digitsPrefix(Whole(c), 0) = 100 /\ HasFraction(c))
      [] step = "ASK_FINANCING_TERM" -> IsNumber(c) /\ \A v \in {12, 24, 36, 48, 60} : ~NumberIs(c, v)
      [] OTHER -> FALSE

\* C4: at ASK_VARIANT, ASK_PAYMENT_TYPE, ASK_DOWN_PAYMENT and
\* ASK_FINANCING_TERM a text message that is not a cancellation and is not
\* valid for the step leaves the stored session, step and context, as it was
\* and creates no Quote.
C4_InvalidKeepsSession ==
    \A t \in Turns :
        (/\ Done(t) /\ turn[t].kind = "text"
         /\ trim(toLowerCase(turn[t].content)) \notin {<<"c","a","n","c","e","l">>, <<"s","t","o","p">>, <<"e","x","i","t">>}
         /\ InvalidFor(turn[t].pre.step, turn[t].content))
        => /\ session[turn[t].user] = turn[t].pre
           /\ Len(quotes[turn[t].user]) = turn[t].q0

\* C5: a turn that starts the quote flow while the user has no session stores
\* a fresh one: ASK_PAYMENT_TYPE with the id and the name of the variant when
\* a hint was supplied and the resolver resolves it, ASK_VARIANT with an empty
\* context otherwise.
C5_StartPersistsFresh ==
    \A t \in Turns :
        (Done(t) /\ turn[t].started /\ StepOf(turn[t].pre) = "IDLE") =>
            LET hint == turn[t].hint
                resolved == IF hint = << >> THEN NoVariant ELSE carIndex[hint]
            IN  /\ turn[t].wrote = <<session[turn[t].user].step>>
                /\ IF resolved # NoVariant
                   THEN session[turn[t].user] =
                            [step |-> "ASK_PAYMENT_TYPE",
                             context |-> [variantId |-> resolved,
                                          variantName |-> ModelById(VariantById(resolved).modelId).name
                                                          \o <<" ">> \o VariantById(resolved).name,
                                          paymentType |-> "", downPaymentPercent |-> Undef,
                                          financingMonths |-> Undef]]
                   ELSE session[turn[t].user] = [step |-> "ASK_VARIANT", context |-> EmptyContext]

C5_Witness ==
    \E t \in Turns :
        /\ Done(t) /\ turn[t].started /\ turn[t].pre = NoRow
        /\ turn[t].hint = <<"x","p","a","n","d","e","r"," ","g","l","s">>
        /\ session[turn[t].user].step = "ASK_PAYMENT_TYPE"
        /\ session[turn[t].user].context.variantId = 2

\* C6: on every turn, of whatever kind, the content-safety check is the
\* first thing done, and a turn whose content holds a blocked-topic token is
\* answered with the canned safety message and does nothing else.
C6_SafetyFirstEveryKind ==
    \A t \in Turns :
        /\ turn[t].ops # << >> => turn[t].ops[1] = "checkContentSafety"
        /\ (Done(t) /\ ~checkContentSafety(turn[t].content))
            => /\ turn[t].sent = <<"safety_message">>
               /\ Len(turn[t].ops) = 1

\* the five messages the text branch never hands to the quote flow
IsMenuWord(c) == toLowerCase(c) \in {<<"h","i">>, <<"h","e","l","l","o">>, <<"s","t","a","r","t">>, <<"m","o","d","e","l","s">>, <<"c","a","r","s">>}

\* the text turn has been through the quote-flow check
Checked(t) == turn[t].kind = "text" /\ Len(turn[t].ops) >= 2

\* the turn is or has been in op
InOp(t, op) == turn[t].pc = op \/ \E i \in 1..Len(turn[t].ops) : turn[t].ops[i] = op

Routed(t) == IF turn[t].started THEN "get_quote" ELSE capabilityOf(turn[t].sent[1])

\* C8: a turn for which the language model is unavailable (no API key, or a
\* call that fails) ends with a normal reply, and is routed as the intent of
\* the rule-based classifier for its message routes it.
C8_UnavailableUsesRuleBased ==
    \A t \in Turns :
        (Done(t) /\ turn[t].llm = "unavailable") =>
            /\ turn[t].sent # << >>
            /\ \A i \in 1..Len(turn[t].sent) : turn[t].sent[i] # "something_went_wrong"
            /\ Routed(t) = route(fallbackIntentDetection(turn[t].content).intent, turn[t].content)

\* C9: when turns of one user overlap, the stored session is at every moment
\* the whole state handed to the latest write, or absent when the latest
\* write was a delete.
C9_LastWriteWins == \A u \in Users : session[u] = lastWrite[u]

C9_Witness ==
    \E t \in Turns, o \in Turns :
        /\ t # o /\ Done(t) /\ Done(o) /\ turn[t].user = turn[o].user
        /\ turn[t].overlapped /\ turn[o].overlapped
        /\ turn[t].wrote = <<"ASK_DOWN_PAYMENT">> /\ turn[o].wrote = <<"GENERATE_QUOTE", "IDLE">>
        /\ session[turn[t].user] = turn[t].state

\* C10: the Quotes created for a user never outnumber the quote flows started
\* for the user, overlapping turns included.
C10_QuotesWithinFlows == \A u \in Users : Len(quotes[u]) <= flows[u]

\* turn t is between its receipt and its return
Running(t) == turn[t].pc \notin {"idle", "done"}

\* C11: while turns of different users interleave, the session and the Quotes
\* of a user are changed only by a step of a turn of that user, and a turn
\* that has not written yet finds the session of its user as it was when the
\* turn was received.
C11_UsersDoNotInterfere ==
    /\ [](\A t \in Turns :
            (Running(t) /\ turn[t].wrote = << >>) =>
                /\ session[turn[t].user] = turn[t].pre
                /\ Len(quotes[turn[t].user]) = turn[t].q0)
    /\ [][\A u \in TwoUsers :
            (session'[u] # session[u] \/ quotes'[u] # quotes[u]) =>
                \E t \in Turns : turn[t].user = u /\ Running(t) /\ turn'[t] # turn[t]]_vars

C11_Witness ==
    \E t \in Turns, o \in Turns :
        /\ turn[t].user = "u1" /\ turn[o].user = "u2"
        /\ turn[t].pc = "clearSession" /\ turn[t].wrote = <<"GENERATE_QUOTE">>
        /\ turn[o].pc = "updateSession" /\ turn[o].pre.step = "ASK_PAYMENT_TYPE"
        /\ turn[o].state.step = "ASK_DOWN_PAYMENT"
        /\ session["u1"].step = "GENERATE_QUOTE" /\ session["u2"].step = "ASK_PAYMENT_TYPE"

\* a write of turn t to the store has failed
WriteFailed(t) ==
    \E i \in 1..Len(turn[t].ops) : turn[t].ops[i] \in {"updateSessionFails", "clearSessionFails", "quoteCreateFails"}

\* C12: after a turn in which a session upsert, a session delete or a Quote
\* insert failed, the stored session is the one the turn found and the only
\* reply is the generic try-again message.
C12_FailedWriteKeepsSession ==
    \A t \in Turns :
        (Done(t) /\ WriteFailed(t)) =>
            /\ session[turn[t].user] = turn[t].pre
            /\ turn[t].sent = <<"something_went_wrong">>

\* the turn was denied by a guardrail
Denied(t) ==
    \/ InOp(t, "checkContentSafety") /\ ~checkContentSafety(turn[t].content)
    \/ turn[t].sent # << >> /\ turn[t].sent[1] \in {"specs_specify_variant", "specs_unavailable"}

\* a catalog lookup of the turn found nothing
NotFound(t) ==
    \/ /\ turn[t].kind = "quick_reply"
       /\ startsWith(toLowerCase(turn[t].content), <<"s","e","l","e","c","t","_">>)
       /\ carIndex[selectedName(turn[t].content)] = NoVariant
    \/ /\ turn[t].kind = "postback"
       /\ startsWith(turn[t].content, <<"s","p","e","c","s","_">>)
       /\ carIndex[specsPostbackQuery(turn[t].content)] = NoVariant
    \/ turn[t].sent # << >> /\ turn[t].sent[1] \in {"specs_not_found", "photos_not_found"}

\* C13: a finished turn of any kind in which a guardrail denied the request
\* or a catalog lookup found nothing has sent a message to the user.
C13_DeniedOrNotFoundAnswered ==
    \A t \in Turns : (Done(t) /\ (Denied(t) \/ NotFound(t))) => turn[t].sent # << >>

\* the intents that have a capability of their own
CapabilityIntents == {"greeting", "show_models", "get_quote", "show_photos", "show_specs"}

\* C14: a finished text turn that was classified as greeting, show_models,
\* get_quote, show_photos or show_specs was handled by the capability of
\* that intent, whatever keywords its text contains.
C14_RoutedByClassifiedIntent ==
    \A t \in Turns : (Done(t) /\ turn[t].intent \in CapabilityIntents) => Routed(t) = turn[t].intent

\* C15: the intent a classification yields is one of greeting, show_models,
\* show_specs, show_photos, get_quote, general_question and unknown, whatever
\* the language model answered.
C15_IntentWithinSet ==
    \A t \in Turns : turn[t].intent # "" => turn[t].intent \in Intents

\* the calculator has been called on its own and has returned
Priced == probe.fn = "calculatePrice" /\ probe.done

\* C16: a call of the calculator for a variant that does not exist, or for a
\* region that has no price rule, returns not-found and no breakdown.
C16_UnknownVariantOrRegionRejected ==
    (Priced /\ (\/ probe.input.variantId \notin VariantIds
                \/ getPriceRulesIn(probe.rules, probe.input.region) = 0))
        => ~probe.out.found

\* the identities of a breakdown, with the insurance fee taken from the rule
\* when specified holds and derived from the price otherwise
BreakdownIdentities(specified) ==
    LET b     == probe.out.breakdown
        f     == probe.out.financing
        r     == getPriceRulesIn(probe.rules, probe.input.region)
        srp   == VariantById(probe.input.variantId).srp
        extra == IF r = 0 \/ probe.rules[r].others = Undef THEN 0 ELSE probe.rules[r].others
        total == Frac(b.total, 1)
    IN  /\ b.fees.total = b.fees.registration + b.fees.chattel + b.fees.insurance + extra
        /\ IF specified THEN b.fees.insurance = probe.rules[r].insurance
           ELSE b.fees.insurance * 1000 = srp * 25
        /\ b.subtotal = srp + sumPrices(probe.input.addons) + b.fees.total
        /\ b.total = b.subtotal - b.promos.discount
        /\ probe.out.cash.total = b.total
        /\ (probe.input.downPaymentPercent # Undef /\ probe.input.financingMonths \notin {Undef, 0}) =>
            /\ f.present
            /\ f.downPayment = FracMul(total, Frac(probe.input.downPaymentPercent, 100))
            /\ FracAdd(f.amountFinanced, f.downPayment) = total
            /\ f.totalInterest = FracMul(FracMul(f.amountFinanced, Frac(f.interestRate, 1000)),
                                         Frac(f.months, 12))
            /\ FracMul(f.monthlyAmortization, Frac(f.months, 1)) = FracAdd(f.amountFinanced, f.totalInterest)
            /\ f.totalPayable = FracAdd(f.downPayment, FracMul(f.monthlyAmortization, Frac(f.months, 1)))

Resolved == probe.fn = "searchVariantByName" /\ probe.done

\* the ids of the variants of the model that the first word of the query names, {} when it names none
HintedVariants(cat, query) ==
    LET words == splitOnSpace(toLowerCase(query))
        m     == firstModelContainingIn(cat, words[1])
    IN  IF m = 0 THEN {}
        ELSE {cat.variants[i].id : i \in {j \in 1..Len(cat.variants) : cat.variants[j].modelId = cat.models[m].id}}

\* the rest of the query after its first word
HintOf(query) == joinSpace(Tail(splitOnSpace(toLowerCase(query))))

\* the query names a model and no variant of that model matches the rest
\* of the query; a query of one word has no rest to match
ModelWithoutVariantMatch(cat, query) ==
    /\ tier1In(cat, query) = NoVariant
    /\ HintedVariants(cat, query) # {}
    /\ \/ Len(splitOnSpace(query)) = 1
       \/ \A id \in HintedVariants(cat, query) : ~includes(toLowerCase(VariantById(id).name), HintOf(query))

\* C18: when the query names a model and no variant of that model matches
\* the rest of the query, the resolver returns a lowest-priced variant of
\* that model, in every storage order of the variants.
C18_ModelOnlyGivesCheapest ==
    (Resolved /\ ModelWithoutVariantMatch(probe.catalog, probe.query)) =>
        /\ probe.out \in HintedVariants(probe.catalog, probe.query)
        /\ \A id \in HintedVariants(probe.catalog, probe.query) : VariantById(probe.out).srp <= VariantById(id).srp

\* the model row of a variant of the catalog
ModelOf(cat, variant) == cat.models[CHOOSE m \in 1..Len(cat.models) : cat.models[m].id = variant.modelId]

\* the variant row of the catalog with this id
RowOf(cat, id) == cat.variants[CHOOSE i \in 1..Len(cat.variants) : cat.variants[i].id = id]

\* the similarity scores of a variant of the catalog to the query
ScoresOf(cat, id, query) ==
    {calculateSimilarity(toLowerCase(query), combinations(ModelOf(cat, RowOf(cat, id)), RowOf(cat, id))[k]) : k \in 1..4}

\* tier 1 of the description: the variants whose name contains the whole query
Tier1Matches(cat, query) ==
    {cat.variants[i].id : i \in {j \in 1..Len(cat.variants) : containsInsensitive(cat.variants[j].name, query)}}

\* tier 2 of the description: the variants of the model the first word names,
\* narrowed to those whose name contains the rest when there are any
Tier2Matches(cat, query) ==
    IF Len(splitOnSpace(query)) < 2 THEN {}
    ELSE LET narrowed == {id \in HintedVariants(cat, query) :
                            includes(toLowerCase(RowOf(cat, id).name), HintOf(query))}
         IN  IF narrowed # {} THEN narrowed ELSE HintedVariants(cat, query)

\* tier 3 of the description: the variants with a similarity of at least 0.6
\* that no other variant exceeds
Tier3Matches(cat, query) ==
    LET ids        == {cat.variants[i].id : i \in 1..Len(cat.variants)}
        top(id)    == CHOOSE a \in ScoresOf(cat, id, query) : \A b \in ScoresOf(cat, id, query) : ScoreGE(a, b)
    IN  {id \in ids : /\ ScoreGE(top(id), FUZZY_MATCH_THRESHOLD)
                      /\ \A other \in ids : ScoreGE(top(id), top(other))}

\* tier 4 of the description: the variants whose name contains the first word
Tier4Matches(cat, query) ==
    {cat.variants[i].id : i \in {j \in 1..Len(cat.variants) :
                                    containsInsensitive(cat.variants[j].name, splitOnSpace(toLowerCase(query))[1])}}

\* the matches of the first tier that has any, {} when no tier has one
FirstTierMatches(cat, query) ==
    IF Tier1Matches(cat, query) # {} THEN Tier1Matches(cat, query)
    ELSE IF Tier2Matches(cat, query) # {} THEN Tier2Matches(cat, query)
    ELSE IF Tier3Matches(cat, query) # {} THEN Tier3Matches(cat, query)
    ELSE Tier4Matches(cat, query)

GuardedSpecsReplies == {"specs_answer", "specs_specify_variant", "specs_unavailable"}

\* C20: a finished text or postback turn that was answered about
\* specifications got either the specifications answer, and then for a
\* variant that resolves and has a non-empty attribute map, or one of the
\* suggestions of the specs guardrail.
C20_SpecsOnlyThroughGuardrail ==
    \A t \in Turns :
        (Done(t) /\ turn[t].sent # << >> /\ capabilityOf(turn[t].sent[1]) = "show_specs") =>
            /\ turn[t].sent[1] \in GuardedSpecsReplies
            /\ (turn[t].kind = "postback" /\ turn[t].sent[1] = "specs_answer") =>
                /\ carIndex[specsPostbackQuery(turn[t].content)] # NoVariant
                /\ SpecKeys[carIndex[specsPostbackQuery(turn[t].content)]] # {}

\* a call of the pricing guardrail has returned
PricingChecked == probe.fn = "checkPricingQuestion" /\ probe.done

\* the pricing guardrail denies with a suggestion exactly when the resolver
\* finds no variant for the message
DeniesExactlyWithoutVariant ==
    /\ probe.out.allowed <=> searchVariantByName(probe.message) # NoVariant
    /\ probe.out.data.suggestion <=> ~probe.out.allowed

CarouselSent == probe.fn \in {"handlePhotosRequest", "handleSpecsRequest"} /\ probe.done

\* C22: whatever the number of photos or spec sheets of the variants, every
\* carousel message handed to the outbound messenger has at most 10 cards.
C22_AtMostTenCards ==
    CarouselSent =>
        \A i \in 1..Len(probe.out) :
            probe.out[i].type = "carousel" => Len(probe.out[i].elements) <= 10

\* a model with 12 and 5 photos has been shown as a gallery of exactly 10
\* cards, the first 10 photos of its first variant
C22_Witness ==
    /\ CarouselSent
    /\ probe.fn = "handlePhotosRequest"
    /\ probe.counts = <<12, 5>>
    /\ Len(probe.out) = 1
    /\ probe.out[1].type = "carousel"
    /\ Len(probe.out[1].elements) = 10
    /\ \A k \in 1..10 : probe.out[1].elements[k] = [variantName |-> 1, url |-> k]

\* a knowledge search has returned
Searched == probe.fn = "searchRelevantFAQs" /\ probe.done

\* the whitespace-delimited words of a query, lowercased
WordsOf(query) == splitWords(toLowerCase(query))

\* the entry of the store with this id
FaqOf(store, id) == store[CHOOSE i \in 1..Len(store) : store[i].id = id]

\* the entry contains the word: in a keyword, in the question or in the answer
ContainsWord(faq, word) ==
    \/ \E k \in 1..Len(faq.keywords) : includes(toLowerCase(faq.keywords[k]), word)
    \/ includes(toLowerCase(faq.question), word)
    \/ includes(toLowerCase(faq.answer), word)

\* C23: the knowledge search returns the first `limit` entries of the entries
\* whose score over the whitespace-delimited words of the query is positive,
\* highest score first and ties in store order; an entry that contains none of
\* the query's words is never returned.
C23_TopScoredEntries ==
    Searched =>
        /\ probe.out = take(rankFaqs(probe.store, WordsOf(probe.query)), probe.limit)
        /\ \A i \in 1..Len(probe.out) :
                \E w \in 1..Len(WordsOf(probe.query)) :
                    ContainsWord(FaqOf(probe.store, probe.out[i]), WordsOf(probe.query)[w])

\* an input has been sanitized
Sanitized == probe.fn = "sanitizeInput" /\ probe.done

\* C24: the sanitized string has at most 500 characters, holds no '<' and no
\* '>', holds no 'javascript:' in any letter case, and sanitizing it again
\* returns it unchanged.
C24_SanitizedIsClean ==
    Sanitized =>
        /\ Len(probe.out) <= 500
        /\ \A i \in 1..Len(probe.out) : probe.out[i] \notin {"<", ">"}
        /\ ~includes(toLowerCase(probe.out), <<"j","a","v","a","s","c","r","i","p","t",":">>)
        /\ sanitizeInput(probe.out) = probe.out

\* a price validation has returned
Validated == probe.fn = "validatePrice" /\ probe.done

\* the claimed price is more than 5% of the stored price away from it
Beyond5Percent(claimed, srp) == (IF claimed >= srp THEN claimed - srp ELSE srp - claimed) * 100 > 5 * srp

\* C25: for an existing variant the validation denies exactly when the claimed
\* price is more than 5% of the stored price away from it, and the result
\* carries the official price and the percent difference whether it allows or
\* denies; for a variant that does not exist it denies.
C25_DeniesBeyond5Percent ==
    Validated =>
        IF probe.variantId \in VariantIds
        THEN /\ ~probe.out.allowed <=> Beyond5Percent(probe.claimedPrice, VariantById(probe.variantId).srp)
             /\ probe.out.officialPrice = VariantById(probe.variantId).srp
             /\ probe.out.percentDifference # Undef
        ELSE ~probe.out.allowed

\* the seed has run to its end at least once and is not running
Seeded == probe.fn = "seedInitialFAQs" /\ probe.runs >= 1 /\ probe.next = 0

\* the rows of a table with this question
RowsWith(table, question) == {i \in 1..Len(table) : table[i].question = question}

\* C26: after any number of runs of the seed there is exactly one entry per
\* seeded question and the table is as the first run left it; no run changes
\* or duplicates an entry that was there with a seeded question.
C26_SeedIdempotent ==
    probe.fn = "seedInitialFAQs" =>
        /\ \A i \in 1..Len(probe.found) :
                /\ i <= Len(probe.table)
                /\ probe.table[i] = probe.found[i]
        /\ \A k \in 1..Len(Faqs) : Cardinality(RowsWith(probe.table, Faqs[k].question)) <= 1
        /\ Seeded =>
                /\ \A k \in 1..Len(Faqs) : Cardinality(RowsWith(probe.table, Faqs[k].question)) = 1
                /\ probe.table = probe.first

\* the seed has run twice on a table that held a rewritten warranty entry and
\* no test-drive entry: the rewritten entry is kept and one test-drive entry exists
C26_Witness ==
    /\ Seeded
    /\ probe.runs = 2
    /\ RowsWith(probe.found, Faqs[2].question) = {}
    /\ Len(probe.found) >= 1
    /\ probe.found[1] = [id |-> 1] @@ faqData(editedFaq(Faqs[1]))
    /\ probe.table[1] = probe.found[1]
    /\ \E i \in 1..Len(probe.table) : faqData(probe.table[i]) = faqData(Faqs[2])
    /\ Len(probe.table) = Len(Faqs)

\* the turn has just persisted a Quote
QuoteJustCreated(t) ==
    /\ turn[t].pc = "clearSession"
    /\ turn[t].ops # << >>
    /\ turn[t].ops[Len(turn[t].ops)] = "quoteCreate"
    /\ quotes[turn[t].user] # << >>

\* C27: the Quote persisted at the end of a financing dialogue carries the
\* down-payment percent accepted at ASK_DOWN_PAYMENT, 0 included, and the term
\* accepted at ASK_FINANCING_TERM; the Quote of a cash dialogue has no
\* financing section.
C27_QuoteKeepsAcceptedTerms ==
    \A t \in Turns :
        QuoteJustCreated(t) =>
            LET details == quotes[turn[t].user][Len(quotes[turn[t].user])].details
                context == turn[t].state.context
            IN  IF context.paymentType = "financing"
                THEN /\ details.financing.present
                     /\ details.financing.downPaymentPercent = context.downPaymentPercent
                     /\ details.financing.months = context.financingMonths
                ELSE ~details.financing.present

\* the turn has persisted a Quote
CreatedQuote(t) == \E i \in 1..Len(turn[t].ops) : turn[t].ops[i] = "quoteCreate"

\* C28: at the end of a turn in which generateQuote persisted a Quote no
\* session row of the user is left at GENERATE_QUOTE, whether the session
\* delete succeeded or failed: the user is idle for the next turn.
C28_IdleAfterQuote ==
    \A t \in Turns :
        (Done(t) /\ CreatedQuote(t)) =>
            /\ StepOf(session[sessionKey(turn[t].user)]) # "GENERATE_QUOTE"
            /\ ~isInQuoteFlow(session[sessionKey(turn[t].user)])

\* a session row is well-formed
WellFormed(row) ==
    LET c == row.context
    IN  /\ row.step \in {"ASK_VARIANT", "ASK_PAYMENT_TYPE", "ASK_DOWN_PAYMENT", "ASK_FINANCING_TERM",
                         "GENERATE_QUOTE"}
        /\ row.step # "ASK_VARIANT" => (c.variantId \in VariantIds /\ c.variantName # << >>)
        /\ row.step \in {"ASK_DOWN_PAYMENT", "ASK_FINANCING_TERM"} => c.paymentType = "financing"
        /\ row.step = "ASK_FINANCING_TERM" => c.downPaymentPercent \in 0..100
        /\ row.step = "GENERATE_QUOTE" =>
                /\ c.paymentType \in {"cash", "financing"}
                /\ c.paymentType = "financing" => c.financingMonths \in {12, 24, 36, 48, 60}

\* C29: every persisted session is well-formed: its step is a step of a
\* dialogue under way, every step after ASK_VARIANT has a variant id and name,
\* the financing steps have payment type financing, ASK_FINANCING_TERM has a
\* percent in [0,100], and GENERATE_QUOTE has a payment type and, for
\* financing, a term of {12,24,36,48,60}.
C29_SessionsWellFormed ==
    \A u \in Users : session[u] # NoRow => WellFormed(session[u])

\* a session is stored at ASK_FINANCING_TERM with the accepted percent 0
C29_Witness ==
    \E u \in Users :
        /\ session[u] # NoRow
        /\ session[u].step = "ASK_FINANCING_TERM"
        /\ session[u].context.downPaymentPercent = 0
        /\ session[u].context.paymentType = "financing"
        /\ session[u].context.variantId = 2
        /\ \E t \in Turns : Done(t) /\ turn[t].user = u /\ turn[t].pre.step = "ASK_DOWN_PAYMENT"

\* the request on a page object has been answered
BatchAnswered == probe.fn = "postWebhook" /\ probe.object = "page" /\ probe.pc = "done"

\* C30: a POST /webhook on a page object handles the events of all its entries
\* one at a time in the order received and then answers 200 EVENT_RECEIVED,
\* also when the handling of an event fails or the error reply cannot be sent.
C30_WholeBatchAcknowledged ==
    probe.fn = "postWebhook" =>
        /\ \A i \in 1..Len(probe.log) :
                i <= Len(eventsOf(probe.entry)) /\ probe.log[i].event = eventsOf(probe.entry)[i]
        /\ BatchAnswered =>
                /\ probe.reply = "200 EVENT_RECEIVED"
                /\ Len(probe.log) = Len(eventsOf(probe.entry))
                /\ \A i \in 1..Len(probe.log) : probe.log[i].ended \in {"handled", "error_reply"}

====
